---------------------------- MODULE Spec2Model ----------------------------
(***************************************************************************)
(* ClawStore B2: write-ahead log, in-memory index, trickle flusher, data   *)
(* files and compactor, modelled at the level of the bytes on disk.        *)
(*                                                                         *)
(* A byte is a number in 0..255, a byte string a sequence of bytes, a file *)
(* the sequence of its bytes.  32-bit quantities are kept as their four    *)
(* little-endian bytes, so no arithmetic leaves the 32-bit range.          *)
(***************************************************************************)
EXTENDS Integers, Sequences, FiniteSets, TLC

(***************************************************************************)
(* Bytes and little-endian words                                           *)
(***************************************************************************)
RECURSIVE XorBits(_, _)
XorBits(a, b) ==
    IF a = 0 THEN b
    ELSE IF b = 0 THEN a
    ELSE (((a % 2) + (b % 2)) % 2) + 2 * XorBits(a \div 2, b \div 2)

\* XOR of two nibbles, as a table (the @@ makes TLC build it once)
XorNibble == [a \in 0..15 |-> [b \in 0..15 |-> XorBits(a, b)] @@ <<>>] @@ <<>>

\* XOR of two bytes
BitXor(a, b) == XorNibble[a % 16][b % 16] + 16 * XorNibble[a \div 16][b \div 16]

Xor4(x, y) == <<BitXor(x[1], y[1]), BitXor(x[2], y[2]), BitXor(x[3], y[3]), BitXor(x[4], y[4])>>

\* u16::to_le_bytes
u16_le(n) == <<n % 256, (n \div 256) % 256>>

\* u32::to_le_bytes, for the lengths the model reaches (below 2^24)
u32_le(n) == <<n % 256, (n \div 256) % 256, (n \div 65536) % 256, 0>>

\* u16::from_le_bytes
from_u16_le(b) == b[1] + (256 * b[2])

\* u32::from_le_bytes(..) as usize.  A length whose top bytes are set is far
\* beyond any file of the model; it is kept exact below 2^24 and saturates at
\* HugeLen above, which every comparison against a file length treats alike.
HugeLen == 16777216

from_u32_le(b) ==
    IF b[4] # 0 THEN HugeLen
    ELSE b[1] + (256 * b[2]) + (65536 * b[3])

Slice(s, from, to) == SubSeq(s, from + 1, to)

Zeros(n) == [i \in 1..n |-> 0]

\* The first n bytes of s (all of s when it is shorter)
Prefix(s, n) == SubSeq(s, 1, IF n < Len(s) THEN n ELSE Len(s))

(***************************************************************************)
(* CRC32C (Castagnoli, reflected polynomial 0x82F63B78), table driven, on  *)
(* little-endian byte quadruples.                                          *)
(***************************************************************************)
CrcPoly == <<120, 59, 246, 130>>

CrcShr1(c) ==
    << (c[1] \div 2) + (128 * (c[2] % 2)),
       (c[2] \div 2) + (128 * (c[3] % 2)),
       (c[3] \div 2) + (128 * (c[4] % 2)),
       (c[4] \div 2) >>

RECURSIVE CrcRounds(_, _)
CrcRounds(c, n) ==
    IF n = 0 THEN c
    ELSE CrcRounds(IF c[1] % 2 = 1 THEN Xor4(CrcShr1(c), CrcPoly) ELSE CrcShr1(c), n - 1)

\* (the @@ makes TLC build the table once, as an explicit function)
CrcTable == [n \in 0..255 |-> CrcRounds(<<n, 0, 0, 0>>, 8)] @@ <<>>

CrcStep(c, byte) ==
    Xor4(CrcTable[BitXor(c[1], byte)], <<c[2], c[3], c[4], 0>>)

RECURSIVE CrcFeed(_, _, _)
CrcFeed(c, bytes, i) ==
    IF i > Len(bytes) \/ c[1] < 0 THEN c
    ELSE CrcFeed(CrcStep(c, bytes[i]), bytes, i + 1)

\* crc32c::crc32c(payload), as the four little-endian bytes of the u32
crc32c(bytes) == Xor4(CrcFeed(<<255, 255, 255, 255>>, bytes, 1), <<255, 255, 255, 255>>)

(***************************************************************************)
(* format.rs: the log record                                               *)
(***************************************************************************)
MAGIC_ARRAY == <<67, 76, 65, 87>>

HEADER_SIZE == 32

\* Size caps of format.rs, scaled down so that TLC can build an oversized
\* key and value (the source has 128 and 32 MiB).
MAX_KEY_SIZE == 4

MAX_VALUE_SIZE == 4

OpPut == 1

OpDelete == 2

\* ChunkHeader::new(..).to_bytes()
ChunkHeader_to_bytes(length, checksum, entry_type) ==
    MAGIC_ARRAY \o u32_le(length) \o checksum \o <<entry_type>> \o Zeros(3) \o Zeros(16)

\* (mutant) the payload with the operation byte of a Put whatever the kind
EntryPayload_op_put(key, value, op) ==
    u16_le(Len(key)) \o u32_le(Len(value)) \o <<OpPut, 0>> \o key \o value

\* The payload serialize_entry builds before the checksum
EntryPayload(key, value, op) ==
    u16_le(Len(key)) \o u32_le(Len(value)) \o <<op, 0>> \o key \o value

\* (mutant) serialize_entry that turns away a key of exactly MAX_KEY_SIZE bytes
serialize_entry_key_ge(key, value, op) ==
    IF Len(key) >= MAX_KEY_SIZE
    THEN [ok |-> FALSE, err |-> "OversizedKey", bytes |-> <<>>]
    ELSE IF Len(value) > MAX_VALUE_SIZE
    THEN [ok |-> FALSE, err |-> "OversizedValue", bytes |-> <<>>]
    ELSE LET payload == EntryPayload(key, value, op)
         IN  [ok |-> TRUE, err |-> "",
              bytes |-> ChunkHeader_to_bytes(Len(payload), crc32c(payload), op) \o payload]

\* serialize_entry(key, value, op) -> ClawResult<Vec<u8>>
serialize_entry(key, value, op) ==
    IF Len(key) > MAX_KEY_SIZE
    THEN [ok |-> FALSE, err |-> "OversizedKey", bytes |-> <<>>]
    ELSE IF Len(value) > MAX_VALUE_SIZE
    THEN [ok |-> FALSE, err |-> "OversizedValue", bytes |-> <<>>]
    ELSE LET payload == EntryPayload(key, value, op)
         IN  [ok |-> TRUE, err |-> "",
              bytes |-> ChunkHeader_to_bytes(Len(payload), crc32c(payload), op) \o payload]

NoEntry == [key |-> <<>>, value |-> <<>>, operation |-> 0]

DeErr(e) == [ok |-> FALSE, err |-> e, entry |-> NoEntry]

\* deserialize_entry(data) -> ClawResult<WalEntry>
deserialize_entry(data) ==
    IF Len(data) < HEADER_SIZE THEN DeErr("WalCorrupted")
    ELSE IF Slice(data, 0, 4) # MAGIC_ARRAY THEN DeErr("NoMagicFound")
    ELSE
      LET length == from_u32_le(Slice(data, 4, 8))
          checksum == Slice(data, 8, 12)
          payload_end == HEADER_SIZE + length
      IN
      IF Len(data) < payload_end THEN DeErr("TornWrite")
      ELSE
        LET payload == Slice(data, HEADER_SIZE, payload_end) IN
        IF crc32c(payload) # checksum THEN DeErr("ChecksumMismatch")
        ELSE IF Len(payload) < 8 THEN DeErr("WalCorrupted")
        ELSE
          LET key_len == from_u16_le(Slice(payload, 0, 2))
              value_len == from_u32_le(Slice(payload, 2, 6))
              key_end == 8 + key_len
              value_end == key_end + value_len
          IN
          IF payload[7] \notin {OpPut, OpDelete} THEN DeErr("WalCorrupted")
          ELSE IF Len(payload) < value_end THEN DeErr("WalCorrupted")
          ELSE [ok |-> TRUE, err |-> "",
                entry |-> [key |-> Slice(payload, 8, key_end),
                           value |-> Slice(payload, key_end, value_end),
                           operation |-> payload[7]]]

(***************************************************************************)
(* wal.rs: recovery                                                        *)
(***************************************************************************)
\* find_next_magic(buffer, start) -> Option<usize>; -1 is None
RECURSIVE find_next_magic(_, _)
find_next_magic(buffer, start) ==
    IF start + 4 > Len(buffer) THEN -1
    ELSE IF Slice(buffer, start, start + 4) = MAGIC_ARRAY THEN start
    ELSE find_next_magic(buffer, start + 1)

\* The while loop of WalReader::recover_from_file, from `offset` on
RECURSIVE recover_loop(_, _, _)
recover_loop(buffer, offset, entries) ==
    IF offset + HEADER_SIZE > Len(buffer) THEN entries
    ELSE IF Slice(buffer, offset, offset + 4) # MAGIC_ARRAY
    THEN LET next == find_next_magic(buffer, offset + 1)
         IN  IF next = -1 THEN entries ELSE recover_loop(buffer, next, entries)
    ELSE
      LET length == from_u32_le(Slice(buffer, offset + 4, offset + 8))
          total_entry_size == HEADER_SIZE + length
      IN
      IF offset + total_entry_size > Len(buffer) THEN entries
      ELSE
        LET r == deserialize_entry(Slice(buffer, offset, offset + total_entry_size)) IN
        IF r.ok THEN recover_loop(buffer, offset + total_entry_size, Append(entries, r.entry))
        ELSE LET next == find_next_magic(buffer, offset + 1)
             IN  IF next = -1 THEN entries ELSE recover_loop(buffer, next, entries)

\* The bytes the entries of a file take when written back to back
RECURSIVE EntriesLen(_, _)
EntriesLen(entries, i) ==
    IF i > Len(entries) THEN 0
    ELSE HEADER_SIZE + 8 + Len(entries[i].key) + Len(entries[i].value)
           + EntriesLen(entries, i + 1)

\* (mutant) a file that does not end on a record boundary is given up
recover_from_file_strict(buffer) ==
    LET entries == recover_loop(buffer, 0, <<>>)
    IN  IF EntriesLen(entries, 1) = Len(buffer) THEN entries ELSE <<>>

\* WalReader::recover_from_file(path), on the bytes of the file
recover_from_file(buffer) == recover_loop(buffer, 0, <<>>)

\* (mutant) the files are read newest first
RECURSIVE recover_files_newest_first(_, _)
recover_files_newest_first(dir, seqs) ==
    IF seqs = {} THEN <<>>
    ELSE LET hi == CHOOSE q \in seqs : \A r \in seqs : q >= r
         IN  recover_from_file(dir[hi]) \o recover_files_newest_first(dir, seqs \ {hi})

\* WalReader::recover_entries: the files in name (= sequence) order
RECURSIVE recover_files(_, _)
recover_files(dir, seqs) ==
    IF seqs = {} THEN <<>>
    ELSE LET lo == CHOOSE q \in seqs : \A r \in seqs : q <= r
         IN  recover_from_file(dir[lo]) \o recover_files(dir, seqs \ {lo})

recover_entries(dir) == recover_files(dir, DOMAIN dir)

(***************************************************************************)
(* wal.rs: the writer.  A WAL directory is a function from the sequence    *)
(* numbers of its wal-<seq>.claw files to their bytes; `synced` gives for  *)
(* each file the length that durable_sync has forced to the medium.        *)
(***************************************************************************)
\* Rotation threshold of wal.rs (100 MiB in the source), scaled down: a file
\* holds two records, unless both carry a four-byte value.
WAL_ROTATION_SIZE == 88

\* WalWriter::find_max_sequence
find_max_sequence(dir) ==
    IF DOMAIN dir = {} THEN 0
    ELSE CHOOSE q \in DOMAIN dir : \A r \in DOMAIN dir : r <= q

\* OpenOptions::new().create(true).append(true).open(path)
OpenAppend(dir, seq) == IF seq \in DOMAIN dir THEN dir ELSE dir @@ (seq :> <<>>)

OpenAppendSynced(synced, seq) ==
    IF seq \in DOMAIN synced THEN synced ELSE synced @@ (seq :> 0)

\* The sequence number WalWriter::new opens
WalWriter_new_sequence(dir) == find_max_sequence(dir)

\* WalWriter::new(wal_dir): the writer, and the directory with its file
WalWriter_new(dir, synced) ==
    LET sequence == WalWriter_new_sequence(dir)
        d == OpenAppend(dir, sequence)
    IN  [dir |-> d, synced |-> OpenAppendSynced(synced, sequence),
         w |-> [file |-> sequence, size |-> Len(d[sequence]), sequence |-> sequence]]

\* The I/O faults a WAL call can meet: a failing durable_sync or open inside
\* rotate, a failing write_all, a failing durable_sync after the write
WalFaults == {"none", "rotate_sync", "rotate_open", "write", "sync"}

\* entry_bytes.len() for an input within the caps: header, the eight bytes
\* of the payload's own fields, key and value
encoded_len(key, value) == HEADER_SIZE + 8 + Len(key) + Len(value)

within_caps(key, value) == Len(key) <= MAX_KEY_SIZE /\ Len(value) <= MAX_VALUE_SIZE

\* Whether append_* rotates before writing this record
needs_rotation(w, key, value) ==
    within_caps(key, value) /\ w.size + encoded_len(key, value) > WAL_ROTATION_SIZE

\* WalWriter::rotate
rotate(w, dir, synced, fault) ==
    IF fault = "rotate_sync"
    THEN [ok |-> FALSE, w |-> w, dir |-> dir, synced |-> synced]
    ELSE
      LET s1 == [synced EXCEPT ![w.file] = Len(dir[w.file])]
          sequence == w.sequence + 1
      IN
      IF fault = "rotate_open"
      THEN [ok |-> FALSE, w |-> [w EXCEPT !.sequence = sequence], dir |-> dir, synced |-> s1]
      ELSE [ok |-> TRUE,
            w |-> [file |-> sequence, size |-> 0, sequence |-> sequence],
            dir |-> OpenAppend(dir, sequence),
            synced |-> OpenAppendSynced(s1, sequence)]

\* The body shared by append_durable (durable = TRUE) and append_fast.
\* `cut` is the number of bytes a failing write_all got out.
append(w, dir, synced, key, value, op, durable, fault, cut) ==
    LET e == serialize_entry(key, value, op) IN
    IF ~e.ok THEN [ok |-> FALSE, err |-> e.err, w |-> w, dir |-> dir, synced |-> synced]
    ELSE
      LET n == Len(e.bytes)
          r == IF w.size + n > WAL_ROTATION_SIZE
               THEN rotate(w, dir, synced, fault)
               ELSE [ok |-> TRUE, w |-> w, dir |-> dir, synced |-> synced]
      IN
      IF ~r.ok THEN [ok |-> FALSE, err |-> "Io", w |-> r.w, dir |-> r.dir, synced |-> r.synced]
      ELSE IF fault = "write"
      THEN [ok |-> FALSE, err |-> "Io", w |-> r.w,
            dir |-> [r.dir EXCEPT ![r.w.file] = @ \o Prefix(e.bytes, cut)],
            synced |-> r.synced]
      ELSE
        LET d2 == [r.dir EXCEPT ![r.w.file] = @ \o e.bytes] IN
        IF durable /\ fault = "sync"
        THEN [ok |-> FALSE, err |-> "Io", w |-> r.w, dir |-> d2, synced |-> r.synced]
        ELSE [ok |-> TRUE, err |-> "",
              w |-> [r.w EXCEPT !.size = @ + n],
              dir |-> d2,
              synced |-> IF durable THEN [r.synced EXCEPT ![r.w.file] = Len(d2[r.w.file])]
                         ELSE r.synced]

\* WalWriter::append_durable
append_durable(w, dir, synced, key, value, op, fault, cut) ==
    append(w, dir, synced, key, value, op, TRUE, fault, cut)

\* WalWriter::append_fast
append_fast(w, dir, synced, key, value, op, fault, cut) ==
    append(w, dir, synced, key, value, op, FALSE, fault, cut)

\* WalWriter::sync
sync(w, dir, synced, fault) ==
    IF fault = "sync" THEN [ok |-> FALSE, synced |-> synced]
    ELSE [ok |-> TRUE, synced |-> [synced EXCEPT ![w.file] = Len(dir[w.file])]]

(***************************************************************************)
(* datafile.rs: data records, writer and reader.  A data directory is a    *)
(* function from the sequence numbers of its data-<seq>.claw files to      *)
(* their bytes.                                                            *)
(***************************************************************************)
DATA_HEADER_SIZE == 24

FLAG_TOMBSTONE == 1

\* Rotation threshold of datafile.rs (256 MiB in the source), scaled down: a
\* file holds four records, unless two of them carry a four-byte value.
MAX_DATA_FILE_SIZE == 110

\* DataChunkHeader::new(..).to_bytes()
DataChunkHeader_to_bytes(key_len, value_len, checksum, flags) ==
    MAGIC_ARRAY \o u16_le(key_len) \o u32_le(value_len) \o checksum \o <<flags>> \o Zeros(9)

\* DataChunkHeader::is_tombstone
is_tombstone(flags) == flags % 2 = 1

\* The bytes write_internal puts out for one record
data_record(key, value, tombstone) ==
    LET actual_value == IF tombstone THEN <<>> ELSE value IN
    DataChunkHeader_to_bytes(Len(key), Len(actual_value), crc32c(key \o actual_value),
                             IF tombstone THEN FLAG_TOMBSTONE ELSE 0)
      \o key \o actual_value

\* DataFileWriter::new: max_seq + 1
DataFileWriter_new(dir) ==
    LET sequence == find_max_sequence(dir) + 1
        d == OpenAppend(dir, sequence)
    IN  [dir |-> d, w |-> [file |-> sequence, size |-> Len(d[sequence]), sequence |-> sequence]]

DataFaults == {"none", "rotate_sync", "rotate_open", "write", "sync"}

\* DataFileWriter::rotate
data_rotate(w, dir, fault) ==
    IF fault = "rotate_sync" THEN [ok |-> FALSE, w |-> w, dir |-> dir]
    ELSE IF fault = "rotate_open"
    THEN [ok |-> FALSE, w |-> [w EXCEPT !.sequence = @ + 1], dir |-> dir]
    ELSE [ok |-> TRUE,
          w |-> [file |-> w.sequence + 1, size |-> 0, sequence |-> w.sequence + 1],
          dir |-> OpenAppend(dir, w.sequence + 1)]

\* DataFileWriter::write_internal -> ClawResult<u64>
write_internal(w, dir, key, value, tombstone, fault, cut) ==
    IF Len(key) > MAX_KEY_SIZE \/ Len(value) > MAX_VALUE_SIZE
    THEN [ok |-> FALSE, offset |-> 0, w |-> w, dir |-> dir]
    ELSE
      LET bytes == data_record(key, value, tombstone)
          entry_size == Len(bytes)
          r == IF w.size + entry_size > MAX_DATA_FILE_SIZE
               THEN data_rotate(w, dir, fault)
               ELSE [ok |-> TRUE, w |-> w, dir |-> dir]
      IN
      IF ~r.ok THEN [ok |-> FALSE, offset |-> 0, w |-> r.w, dir |-> r.dir]
      ELSE IF fault = "write"
      THEN [ok |-> FALSE, offset |-> 0, w |-> r.w,
            dir |-> [r.dir EXCEPT ![r.w.file] = @ \o Prefix(bytes, cut)]]
      ELSE IF fault = "sync"
      THEN [ok |-> FALSE, offset |-> 0, w |-> r.w,
            dir |-> [r.dir EXCEPT ![r.w.file] = @ \o bytes]]
      ELSE [ok |-> TRUE, offset |-> r.w.size,
            w |-> [r.w EXCEPT !.size = @ + entry_size],
            dir |-> [r.dir EXCEPT ![r.w.file] = @ \o bytes]]

\* DataFileWriter::write_entry
write_entry(w, dir, key, value, fault, cut) == write_internal(w, dir, key, value, FALSE, fault, cut)

\* DataFileWriter::write_tombstone
write_tombstone(w, dir, key, fault, cut) == write_internal(w, dir, key, <<>>, TRUE, fault, cut)

\* find_next_magic of datafile.rs (the file is read in 4096-byte windows that
\* overlap by three bytes: the first match at or after `start`)
RECURSIVE data_find_next_magic(_, _)
data_find_next_magic(file, start) ==
    IF start + 4 > Len(file) THEN -1
    ELSE IF Slice(file, start, start + 4) = MAGIC_ARRAY THEN start
    ELSE data_find_next_magic(file, start + 1)

\* The while loop of DataFileReader::scan_all
RECURSIVE scan_loop(_, _, _)
scan_loop(file, offset, entries) ==
    IF offset + DATA_HEADER_SIZE > Len(file) THEN entries
    ELSE
      LET key_len == from_u16_le(Slice(file, offset + 4, offset + 6))
          value_len == from_u32_le(Slice(file, offset + 6, offset + 10))
          checksum == Slice(file, offset + 10, offset + 14)
          flags == file[offset + 15]
          entry_total == DATA_HEADER_SIZE + key_len + value_len
          next == data_find_next_magic(file, offset + 1)
      IN
      IF Slice(file, offset, offset + 4) # MAGIC_ARRAY
           \/ key_len > MAX_KEY_SIZE \/ value_len > MAX_VALUE_SIZE
      THEN IF next = -1 THEN entries ELSE scan_loop(file, next, entries)
      ELSE IF offset + entry_total > Len(file) THEN entries
      ELSE
        LET key == Slice(file, offset + DATA_HEADER_SIZE, offset + DATA_HEADER_SIZE + key_len)
            value == Slice(file, offset + DATA_HEADER_SIZE + key_len, offset + entry_total)
        IN
        scan_loop(file, offset + entry_total,
                  IF crc32c(key \o value) = checksum
                  THEN Append(entries, [key |-> key, value |-> value, offset |-> offset,
                                        is_tombstone |-> is_tombstone(flags)])
                  ELSE entries)

\* DataFileReader::scan_all(path), on the bytes of the file
scan_all(file) == scan_loop(file, 0, <<>>)

\* DataFileReader::read_entry(path, offset) -> ClawResult<Option<DataEntry>>,
\* on the bytes of the file; read_exact fails when the file ends early
read_entry(file, offset) ==
    LET bad(err) == [ok |-> FALSE, err |-> err, some |-> FALSE, key |-> <<>>, value |-> <<>>] IN
    IF offset + DATA_HEADER_SIZE > Len(file) THEN bad("Io")
    ELSE
      LET key_len == from_u16_le(Slice(file, offset + 4, offset + 6))
          value_len == from_u32_le(Slice(file, offset + 6, offset + 10))
          checksum == Slice(file, offset + 10, offset + 14)
          flags == file[offset + 15]
          key_end == offset + DATA_HEADER_SIZE + key_len
      IN
      IF Slice(file, offset, offset + 4) # MAGIC_ARRAY THEN bad("NoMagicFound")
      ELSE IF key_len > MAX_KEY_SIZE \/ value_len > MAX_VALUE_SIZE THEN bad("WalCorrupted")
      ELSE IF key_end + value_len > Len(file) THEN bad("Io")
      ELSE
        LET key == Slice(file, offset + DATA_HEADER_SIZE, key_end)
            value == Slice(file, key_end, key_end + value_len)
        IN
        IF crc32c(key \o value) # checksum THEN bad("ChecksumMismatch")
        ELSE IF is_tombstone(flags)
        THEN [ok |-> TRUE, err |-> "", some |-> FALSE, key |-> <<>>, value |-> <<>>]
        ELSE [ok |-> TRUE, err |-> "", some |-> TRUE, key |-> key, value |-> value]

(***************************************************************************)
(* engine.rs: replay                                                       *)
(***************************************************************************)
\* The in-memory index is a function from the keys present to their values.
EmptyIndex == [k \in {} |-> <<>>]

IndexInsert(idx, k, v) == [q \in (DOMAIN idx) \cup {k} |-> IF q = k THEN v ELSE idx[q]]

IndexRemove(idx, k) == [q \in (DOMAIN idx) \ {k} |-> idx[q]]

\* The replay loop of ClawStoreEngine::open
RECURSIVE replay(_, _, _)
replay(entries, i, idx) ==
    IF i > Len(entries) THEN idx
    ELSE replay(entries, i + 1,
                IF entries[i].operation = OpPut
                THEN IndexInsert(idx, entries[i].key, entries[i].value)
                ELSE IndexRemove(idx, entries[i].key))

\* (mutant) open loads the records of the data files, then replays the WAL
RECURSIVE load_data(_, _, _)
load_data(entries, i, idx) ==
    IF i > Len(entries) THEN idx
    ELSE load_data(entries, i + 1,
                   IF entries[i].is_tombstone THEN IndexRemove(idx, entries[i].key)
                   ELSE IndexInsert(idx, entries[i].key, entries[i].value))

RECURSIVE load_files(_, _, _)
load_files(dir, seqs, idx) ==
    IF seqs = {} THEN idx
    ELSE LET lo == CHOOSE q \in seqs : \A r \in seqs : q <= r
         IN  load_files(dir, seqs \ {lo}, load_data(scan_all(dir[lo]), 1, idx))

open_index_from_data(walDirectory, dataDirectory) ==
    replay(recover_entries(walDirectory), 1,
           load_files(dataDirectory, DOMAIN dataDirectory, EmptyIndex))

\* The index ClawStoreEngine::open builds; the data directory is not read
open_index(walDirectory, dataDirectory) == replay(recover_entries(walDirectory), 1, EmptyIndex)

(***************************************************************************)
(* compaction.rs: compact_file                                             *)
(***************************************************************************)
\* (mutant) the first record of a key wins
RECURSIVE LatestOfFirst(_, _, _)
LatestOfFirst(entries, i, latest) ==
    IF i > Len(entries) THEN latest
    ELSE LatestOfFirst(entries, i + 1,
                       IF entries[i].key \in DOMAIN latest THEN latest
                       ELSE latest @@ (entries[i].key :> entries[i]))

\* for entry in all_entries { latest.insert(entry.key.clone(), entry); }
RECURSIVE LatestOf(_, _, _)
LatestOf(entries, i, latest) ==
    IF i > Len(entries) THEN latest
    ELSE LatestOf(entries, i + 1,
                  [k \in (DOMAIN latest) \cup {entries[i].key} |->
                      IF k = entries[i].key THEN entries[i] ELSE latest[k]])

\* The keys of latest.values().filter(|e| !e.is_tombstone)
LiveKeys(latest) == {k \in DOMAIN latest : ~latest[k].is_tombstone}

\* The orders in which a HashMap can hand out the keys of S
Orders(S) ==
    {o \in [1..Cardinality(S) -> S] : \A i, j \in 1..Cardinality(S) : o[i] = o[j] => i = j}

\* (mutant) the rewritten record carries the tombstone flag
compact_record_flagged(key, value) ==
    MAGIC_ARRAY \o u16_le(Len(key)) \o u32_le(Len(value)) \o crc32c(key \o value)
      \o <<FLAG_TOMBSTONE>> \o Zeros(9) \o key \o value

\* The header compact_file builds by hand, then key and value: flags stay 0
compact_record(key, value) ==
    MAGIC_ARRAY \o u16_le(Len(key)) \o u32_le(Len(value)) \o crc32c(key \o value)
      \o Zeros(10) \o key \o value

\* The bytes written to the temp file for the live entries in this order
RECURSIVE compact_bytes(_, _, _)
compact_bytes(latest, order, i) ==
    IF i > Len(order) THEN <<>>
    ELSE compact_record(latest[order[i]].key, latest[order[i]].value)
           \o compact_bytes(latest, order, i + 1)

\* (mutant) the live entries are written over the original file itself
compact_path_in_place == "original"

\* compact_path = file_path.with_extension("claw.compact"): the live entries
\* go to a sibling temp file
compact_path == "temp"

\* The I/O faults of compact_file: the stat of the original, the creation of
\* the temp file, a write to it, its durable_sync, the rename, the
\* durable_sync of the directory
CompactFaults == {"none", "stat", "open", "write", "sync", "rename", "dirsync"}

\* The points at which compact_file can be cut short: the faults, and
\* "created" (the temp file exists, nothing is written yet)
CompactStops == CompactFaults \cup {"created"}

\* The bytes at file_path and in the temp file when compact_file got as far
\* as `stop`: the rename has happened from "dirsync" on
compact_progress(file, out, stop, cut) ==
    LET written == IF stop = "created" THEN <<>>
                   ELSE IF stop = "write" THEN Prefix(out, cut)
                   ELSE out
    IN  IF stop \in {"stat", "open"}
        THEN [replaced |-> FALSE, after |-> file, has_temp |-> FALSE, temp |-> <<>>]
        ELSE IF compact_path = "temp"
        THEN IF stop \in {"dirsync", "none"}
             THEN [replaced |-> TRUE, after |-> out, has_temp |-> FALSE, temp |-> <<>>]
             ELSE [replaced |-> FALSE, after |-> file, has_temp |-> TRUE, temp |-> written]
        ELSE [replaced |-> stop \in {"dirsync", "none"}, after |-> written,
              has_temp |-> FALSE, temp |-> <<>>]

\* compact_file(file_path), on the bytes of the file: the result and its
\* counts, whether the rename took place, the bytes at file_path and in the
\* temp file afterwards
compact_file(file, order, fault, cut) ==
    LET all_entries == scan_all(file)
        latest == LatestOf(all_entries, 1, <<>>)
        out == compact_bytes(latest, order, 1)
        p == compact_progress(file, out, fault, cut)
    IN  [ok |-> fault = "none", replaced |-> p.replaced, after |-> p.after,
         has_temp |-> p.has_temp, temp |-> p.temp,
         original_entries |-> Len(all_entries),
         live_entries |-> Cardinality(LiveKeys(latest)),
         removed_entries |-> Len(all_entries) - Cardinality(LiveKeys(latest))]

\* The name data-<seq>.claw of a data file (datafile.rs:121), as its stem,
\* its sequence number and its dot-separated extensions
data_file_name(seq) == [stem |-> "data-", seq |-> seq, exts |-> <<"claw">>]

\* file_path.with_extension("claw.compact"): the last extension is replaced
with_extension_claw_compact(name) ==
    [name EXCEPT !.exts = SubSeq(name.exts, 1, Len(name.exts) - 1) \o <<"claw", "compact">>]

\* name.starts_with("data-") && name.ends_with(".claw"): the files whose
\* sequence numbers DataFileWriter::new takes into account
writer_lists(name) ==
    /\ name.stem = "data-"
    /\ Len(name.exts) > 0 /\ name.exts[Len(name.exts)] = "claw"

\* ... && !name.contains(".compact"): the files compact_directory looks at
compactor_lists(name) ==
    /\ writer_lists(name)
    /\ \A i \in DOMAIN name.exts : name.exts[i] # "compact"

(***************************************************************************)
(* compaction.rs: needs_compaction. The ratio is computed in f64; a value  *)
(* in [0, 1] is its integer part and the bits after the binary point.      *)
(***************************************************************************)
\* Significant bits of an f64
F64_MANTISSA == 53

F64Zero == [int |-> 0, frac |-> <<>>]

F64One == [int |-> 1, frac |-> <<>>]

\* 2^i mod b
RECURSIVE Pow2Mod(_, _)
Pow2Mod(i, b) == IF i = 0 THEN 1 % b ELSE (2 * Pow2Mod(i - 1, b)) % b

\* Bits 1..n after the binary point of a / b, for 0 <= a < b
QuotBits(a, b, n) ==
    [i \in 1..n |-> (2 * ((a * Pow2Mod(i - 1, b)) % b)) \div b] @@ <<>>

\* The position of the first 1 of a bit string that has one
FirstOne(bits) ==
    CHOOSE i \in DOMAIN bits : bits[i] = 1 /\ \A j \in 1..(i - 1) : bits[j] = 0

\* One unit in the last place added to a bit string that is not all ones
IncBits(bits) ==
    [i \in DOMAIN bits |->
        IF \A j \in (i + 1)..Len(bits) : bits[j] = 1 THEN 1 - bits[i] ELSE bits[i]] @@ <<>>

\* 0.bits (followed by more nonzero bits iff sticky), rounded to the nearest
\* f64, ties to even
RoundF64(bits, sticky) ==
    IF \A i \in DOMAIN bits : bits[i] = 0 THEN F64Zero
    ELSE LET n == FirstOne(bits) + F64_MANTISSA - 1 IN
         IF Len(bits) <= n THEN [int |-> 0, frac |-> bits]
         ELSE LET kept == SubSeq(bits, 1, n)
                  rest == sticky \/ \E j \in (n + 2)..Len(bits) : bits[j] = 1
                  up == bits[n + 1] = 1 /\ (rest \/ kept[n] = 1)
              IN  IF ~up THEN [int |-> 0, frac |-> kept]
                  ELSE IF \A j \in 1..n : kept[j] = 1 THEN F64One
                  ELSE [int |-> 0, frac |-> IncBits(kept)]

\* (a as f64) / (b as f64) for 0 <= a <= b, b > 0; also the f64 a decimal
\* literal a/b denotes
f64_div(a, b) ==
    IF a = 0 THEN F64Zero
    ELSE IF a = b THEN F64One
    ELSE LET n == b + F64_MANTISSA + 1 IN
         RoundF64(QuotBits(a, b, n), (a * Pow2Mod(n, b)) % b # 0)

\* 1.0 - x for an f64 x in [0, 1]
f64_one_minus(x) ==
    IF x.int = 1 THEN F64Zero
    ELSE IF \A i \in DOMAIN x.frac : x.frac[i] = 0 THEN F64One
    ELSE RoundF64(IncBits([i \in DOMAIN x.frac |-> 1 - x.frac[i]]), FALSE)

\* x >= y on f64 values in [0, 1]
f64_ge(x, y) ==
    LET n == IF Len(x.frac) > Len(y.frac) THEN Len(x.frac) ELSE Len(y.frac)
        px == x.frac \o Zeros(n - Len(x.frac))
        py == y.frac \o Zeros(n - Len(y.frac))
    IN  \/ x.int > y.int
        \/ /\ x.int = y.int
           /\ \/ px = py
              \/ \E i \in 1..n : px[i] = 1 /\ py[i] = 0 /\ \A j \in 1..(i - 1) : px[j] = py[j]

\* needs_compaction(file_path, threshold), on the bytes of the file
needs_compaction(file, threshold) ==
    LET entries == scan_all(file) IN
    IF Len(entries) = 0 THEN FALSE
    ELSE LET live_count == Cardinality(LiveKeys(LatestOf(entries, 1, <<>>)))
             dead_ratio == f64_one_minus(f64_div(live_count, Len(entries)))
         IN  f64_ge(dead_ratio, threshold)

(***************************************************************************)
(* State                                                                   *)
(***************************************************************************)
VARIABLES
    walDir,      \* <root>/wal: sequence number -> bytes of wal-<seq>.claw
    walSynced,   \* per WAL file, the length durable_sync has made durable
    dataDir,     \* <root>/data: sequence number -> bytes of data-<seq>.claw
    up,          \* the engine is open
    data,        \* ClawStoreEngine.data, the in-memory index
    dirty,       \* DirtyTracker.dirty_keys
    wal,         \* ClawStoreEngine.wal, the WalWriter (file, size, sequence)
    pc,          \* per caller thread, its position inside put/put_fast/delete/sync_wal
    call,        \* per caller thread, the call it is in (op, key, value)
    res,         \* per caller thread, what its last call returned
    walOk,       \* per caller thread, whether the WAL step of its call succeeded
    touched,     \* per caller thread, whether its call has changed index or dirty set
    fl,          \* the trickle worker: position, snapshot, success count
    dw,          \* the trickle worker's DataFileWriter
    stats,       \* DirtyTracker.total_flushed and total_cycles
    walLog,      \* history: the entries whose append returned Ok, in append order
    applied,     \* history: the entries applied to the index
    nOps,        \* history: calls started since the engine was opened
    nFaults,     \* history: I/O faults injected
    session,     \* history: opens so far, how and with what index the last engine ended,
                 \* and the WAL files the open engine found
    deleted,     \* history: keys whose delete returned Ok, with no put of the key made since
    fastAcked,   \* history: the entries whose put_fast returned Ok on the open engine
    committed,   \* history: the entries of fastAcked at the last sync_wal that returned Ok
    layout,      \* history: per WAL file, its records as written, torn or damaged
    recovered,   \* what WalReader::recover_entries returned, once it has run
    dataDirB,    \* <rootB>/data of a second root that holds the same WAL files
    dwB,         \* the DataFileWriter on <rootB>/data
    indexB,      \* the index open builds on the second root
    compacted,   \* the last compact_file call: file, bytes before and after, result
    scanFile,    \* the bytes of a data file handed to needs_compaction
    needs,       \* the last needs_compaction call: threshold and result
    cycle,       \* history: the last whole flush cycle, what it found and what it left
    tr,          \* the trickle thread and the shutdown of its handle
    cfg,         \* ClawStoreEngine.config, the Config handed to open
    last         \* history: the last call of a one-caller run, its result and the state before

vars == <<walDir, walSynced, dataDir, up, data, dirty, wal, pc, call, res, walOk,
          touched, fl, dw, stats, walLog, applied, nOps, nFaults, session, deleted,
          fastAcked, committed, layout, recovered, dataDirB, dwB, indexB, compacted,
          scanFile, needs, cycle, tr, cfg, last>>

diskVars == <<walDir, walSynced, dataDir>>
threadVars == <<pc, call, res, walOk, touched>>
flushVars == <<fl, dw, stats>>
crashVars == <<session, deleted, fastAcked, committed>>
recoverVars == <<layout, recovered>>
authVars == <<dataDirB, dwB, indexB>>
\* The variables only the specifications other than Spec move
obsVars == <<cfg, last>>
extVars == <<scanFile, needs, cycle, tr, obsVars>>
auxVars == <<crashVars, recoverVars, authVars, compacted, extVars>>

(***************************************************************************)
(* Bounds and inputs                                                       *)
(***************************************************************************)
MaxOps == 2

MaxFaults == 1

MaxCycles == 1

Threads == {"t1", "t2"}

K1 == <<1>>
K2 == <<2>>
KBig == <<9, 9, 9, 9, 9>>
V1 == <<5>>
V2 == <<6, 6, 6, 6>>
VBig == <<8, 8, 8, 8, 8>>

Keys == {K1, K2}
Values == {V1, V2}

\* The calls a thread can make; one oversized key and one oversized value
Calls ==
    [op : {"put"}, key : Keys, value : Values]
      \cup [op : {"put_fast"}, key : Keys, value : {V2}]
      \cup [op : {"delete"}, key : Keys, value : {<<>>}]
      \cup {[op |-> "put", key |-> KBig, value |-> V1],
            [op |-> "put_fast", key |-> K1, value |-> VBig],
            [op |-> "sync_wal", key |-> <<>>, value |-> <<>>]}

NoCall == [op |-> "none", key |-> <<>>, value |-> <<>>]

\* The cut points of a failing write_all: the magic alone got out
Cuts == {4}

\* A fault and, for a failing write, its cut point
FaultCases(faults) ==
    {<<f, 0>> : f \in faults \ {"write"}} \cup {<<"write", c>> : c \in Cuts}

\* The fault can strike this WAL call: rotate's faults need a rotation, the
\* sync fault a durable append, and none strikes an oversized input
WalFaultApplies(c, fault) ==
    /\ fault \in {"rotate_sync", "rotate_open"} => needs_rotation(wal, c.key, c.value)
    /\ fault = "sync" => c.op # "put_fast"
    /\ fault # "none" => within_caps(c.key, c.value)

Range(f) == {f[i] : i \in DOMAIN f}

Entry(k, v, op) == [key |-> k, value |-> v, operation |-> op]

(***************************************************************************)
(* engine.rs: open on an empty root, trickle started                       *)
(***************************************************************************)
IdleFlusher == [pc |-> "sleep", to_flush |-> {}, keys |-> {}, flushed |-> 0]

EmptyDir == [q \in {} |-> <<>>]

InitEngine ==
    LET o == WalWriter_new(EmptyDir, EmptyDir)
        f == DataFileWriter_new(EmptyDir)
    IN  /\ walDir = o.dir
        /\ walSynced = o.synced
        /\ wal = o.w
        /\ dataDir = f.dir
        /\ dw = f.w
        /\ data = open_index(EmptyDir, EmptyDir)
        /\ dirty = {}
        /\ fl = IdleFlusher
        /\ stats = [total_flushed |-> 0, total_cycles |-> 0]
        /\ walLog = <<>>
        /\ applied = {}
        /\ nOps = 0
        /\ nFaults = 0

InitThreads ==
    /\ pc = [t \in Threads |-> "idle"]
    /\ call = [t \in Threads |-> NoCall]
    /\ res = [t \in Threads |-> "none"]
    /\ walOk = [t \in Threads |-> TRUE]
    /\ touched = [t \in Threads |-> FALSE]

\* Histories and second-root state before anything has happened
FirstSession ==
    [opens |-> 1, clean |-> FALSE, durable |-> TRUE, index |-> EmptyIndex, existing |-> {}]

NotRecovered == [done |-> FALSE, entries |-> <<>>]

NoCompaction ==
    [runs |-> 0, ok |-> FALSE, replaced |-> FALSE, file |-> 0, before |-> <<>>,
     after |-> <<>>, has_temp |-> FALSE, temp |-> <<>>, original_entries |-> 0,
     live_entries |-> 0, removed_entries |-> 0, again |-> FALSE, crashed |-> FALSE]

InitCrashVars ==
    /\ session = FirstSession
    /\ deleted = {}
    /\ fastAcked = {}
    /\ committed = {}

InitRecoverVars ==
    /\ layout = [q \in DOMAIN walDir |-> <<>>]
    /\ recovered = NotRecovered

InitAuthVars ==
    LET f == DataFileWriter_new(EmptyDir)
    IN  /\ dataDirB = f.dir
        /\ dwB = f.w
        /\ indexB = EmptyIndex

NoNeeds == [done |-> FALSE, threshold |-> <<0, 1>>, result |-> FALSE]

NoCycle ==
    [done |-> FALSE, failed |-> FALSE, keys |-> {}, index |-> EmptyIndex,
     index_after |-> EmptyIndex, before |-> <<>>, after |-> <<>>, dirty_after |-> {}]

\* No trickle thread: the shutdown flag, the worker's and the stopping
\* caller's positions, and the history of the shutdown
NoTrickle ==
    [shutdown |-> FALSE, worker |-> "none", caller |-> "idle", how |-> "none",
     finals |-> 0, armed |-> FALSE, pending |-> {}, at_signal |-> {}, failed |-> FALSE]

\* Config::server(), phone() and budget(): the fields that size the WAL and
\* the records. The numbers are scaled as the constants of format.rs and
\* wal.rs are: server() carries those constants, phone() and budget() carry
\* smaller ones in the source's order, each file still holding a record.
Config_server ==
    [wal_rotation_size_bytes |-> 88, max_key_size |-> 4, max_value_size |-> 4]

Config_phone ==
    [wal_rotation_size_bytes |-> 66, max_key_size |-> 4, max_value_size |-> 2]

Config_budget ==
    [wal_rotation_size_bytes |-> 44, max_key_size |-> 2, max_value_size |-> 1]

\* impl Default for Config
Config_default == Config_server

Configs == {Config_server, Config_phone, Config_budget}

\* No call made yet: the count of calls, the last call, its error ("" for Ok)
\* and its value, and WAL directory, writer, index and dirty set as the call
\* found them
NoLast ==
    [n |-> 0, call |-> NoCall, err |-> "", out |-> <<>>, dir |-> EmptyDir,
     w |-> [file |-> 0, size |-> 0, sequence |-> 0], index |-> EmptyIndex, dirty |-> {}]

InitExtVars ==
    /\ scanFile = <<>>
    /\ needs = NoNeeds
    /\ cycle = NoCycle
    /\ tr = NoTrickle
    /\ cfg = Config_default
    /\ last = NoLast

InitAux ==
    InitCrashVars /\ InitRecoverVars /\ InitAuthVars /\ compacted = NoCompaction /\ InitExtVars

Init == InitEngine /\ up = TRUE /\ InitThreads /\ InitAux

\* The same root with its files created and no engine open on it
InitDown == InitEngine /\ up = FALSE /\ InitThreads /\ InitAux

(***************************************************************************)
(* engine.rs: put, put_fast, delete, sync_wal, one step per lock scope     *)
(***************************************************************************)
\* (mutant) RAM first: the index is updated on entry, before the WAL append
CallRamFirst(t, c) ==
    /\ up /\ pc[t] = "idle" /\ nOps < MaxOps
    /\ pc' = [pc EXCEPT ![t] = "wal"]
    /\ call' = [call EXCEPT ![t] = c]
    /\ res' = [res EXCEPT ![t] = "none"]
    /\ walOk' = [walOk EXCEPT ![t] = TRUE]
    /\ touched' = [touched EXCEPT ![t] = FALSE]
    /\ nOps' = nOps + 1
    /\ data' = IF c.op \in {"put", "put_fast"} /\ Len(c.key) <= MAX_KEY_SIZE
               THEN [q \in (DOMAIN data) \cup {c.key} |-> IF q = c.key THEN c.value ELSE data[q]]
               ELSE data
    /\ UNCHANGED <<auxVars, diskVars, up, dirty, wal, flushVars, walLog, applied, nFaults>>

\* A thread enters put, put_fast, delete or sync_wal
Call(t, c) ==
    /\ up /\ pc[t] = "idle" /\ nOps < MaxOps
    /\ pc' = [pc EXCEPT ![t] = "wal"]
    /\ call' = [call EXCEPT ![t] = c]
    /\ res' = [res EXCEPT ![t] = "none"]
    /\ walOk' = [walOk EXCEPT ![t] = TRUE]
    /\ touched' = [touched EXCEPT ![t] = FALSE]
    /\ nOps' = nOps + 1
    /\ UNCHANGED <<auxVars, diskVars, up, data, dirty, wal, flushVars, walLog, applied, nFaults>>

OpOf(c) == IF c.op = "delete" THEN OpDelete ELSE OpPut

\* What the WAL scope of a call does to writer and disk
WalAppend(c, fault, cut) ==
    IF c.op = "put_fast"
    THEN append_fast(wal, walDir, walSynced, c.key, c.value, OpPut, fault, cut)
    ELSE append_durable(wal, walDir, walSynced, c.key, c.value, OpOf(c), fault, cut)

\* (mutant) the error of the WAL scope is dropped and the call goes on
AfterWalIgnoringError(ok) == "index"

\* Where a call goes after its WAL scope: `?` returns the error
AfterWal(ok) == IF ok THEN "index" ELSE "idle"

\* { let mut wal = self.wal.lock(); wal.append_*(key, value, op)?; }
WalStep(t, fault, cut) ==
    /\ pc[t] = "wal" /\ call[t].op # "sync_wal"
    /\ fault # "none" => nFaults < MaxFaults
    /\ WalFaultApplies(call[t], fault)
    /\ LET r == WalAppend(call[t], fault, cut) IN
       /\ walDir' = r.dir
       /\ walSynced' = r.synced
       /\ wal' = r.w
       /\ walOk' = [walOk EXCEPT ![t] = r.ok]
       /\ pc' = [pc EXCEPT ![t] = AfterWal(r.ok)]
       /\ res' = [res EXCEPT ![t] = IF r.ok THEN "none" ELSE r.err]
       /\ walLog' = IF r.ok THEN Append(walLog, Entry(call[t].key, call[t].value, OpOf(call[t])))
                    ELSE walLog
    /\ nFaults' = IF fault = "none" THEN nFaults ELSE nFaults + 1
    /\ UNCHANGED <<auxVars, dataDir, up, data, dirty, call, touched, flushVars, applied, nOps>>

\* The index update of a call: insert for put and put_fast, remove for delete
IndexUpdate(idx, c) ==
    IF c.op = "delete" THEN IndexRemove(idx, c.key) ELSE IndexInsert(idx, c.key, c.value)

\* { let mut data = self.data.write(); data.insert(..) or data.remove(..); }
IndexStep(t) ==
    /\ pc[t] = "index"
    /\ data' = IndexUpdate(data, call[t])
    /\ applied' = applied \cup {Entry(call[t].key, call[t].value, OpOf(call[t]))}
    /\ touched' = [touched EXCEPT ![t] = TRUE]
    /\ pc' = [pc EXCEPT ![t] = "mark"]
    /\ UNCHANGED <<auxVars, diskVars, up, dirty, wal, call, res, walOk, flushVars, walLog, nOps, nFaults>>

\* A tracker that forgets the key
mark_dirty_forgetting(set, key) == set

\* DirtyTracker::mark_dirty
mark_dirty(set, key) == set \cup {key}

\* self.dirty.mark_dirty(key); Ok(())
MarkStep(t) ==
    /\ pc[t] = "mark"
    /\ dirty' = mark_dirty(dirty, call[t].key)
    /\ touched' = [touched EXCEPT ![t] = TRUE]
    /\ pc' = [pc EXCEPT ![t] = "idle"]
    /\ res' = [res EXCEPT ![t] = "Ok"]
    /\ UNCHANGED <<auxVars, diskVars, up, data, wal, call, walOk, flushVars, walLog, applied, nOps, nFaults>>

\* ClawStoreEngine::sync_wal
SyncWal(t, fault) ==
    /\ pc[t] = "wal" /\ call[t].op = "sync_wal"
    /\ fault \in {"none", "sync"}
    /\ fault # "none" => nFaults < MaxFaults
    /\ LET r == sync(wal, walDir, walSynced, fault) IN
       /\ walSynced' = r.synced
       /\ res' = [res EXCEPT ![t] = IF r.ok THEN "Ok" ELSE "Io"]
    /\ pc' = [pc EXCEPT ![t] = "idle"]
    /\ nFaults' = IF fault = "none" THEN nFaults ELSE nFaults + 1
    /\ UNCHANGED <<auxVars, walDir, dataDir, up, data, dirty, wal, call, walOk, touched, flushVars,
                   walLog, applied, nOps>>

(***************************************************************************)
(* trickle.rs: the worker's flush cycle, one step per lock scope or write  *)
(***************************************************************************)
\* (mutant) a cycle that wrote nothing is not counted
record_cycle_unless_empty(st, flushed_count) ==
    IF flushed_count = 0 THEN st
    ELSE [total_flushed |-> st.total_flushed + flushed_count,
          total_cycles |-> st.total_cycles + 1]

\* DirtyTracker::record_cycle
record_cycle(st, flushed_count) ==
    [total_flushed |-> st.total_flushed + flushed_count,
     total_cycles |-> st.total_cycles + 1]

\* The snapshot flush_dirty takes under the read lock
Snapshot(idx, keys) ==
    {[key |-> k, present |-> k \in DOMAIN idx,
      value |-> IF k \in DOMAIN idx THEN idx[k] ELSE <<>>] : k \in keys}

\* let dirty_keys = tracker.take_dirty(); an empty set ends the cycle at once
FlushTake ==
    /\ up /\ fl.pc = "sleep" /\ stats.total_cycles < MaxCycles
    /\ dirty' = {}
    /\ IF dirty = {}
       THEN /\ stats' = record_cycle(stats, 0)
            /\ fl' = fl
       ELSE /\ stats' = stats
            /\ fl' = [pc |-> "snapshot", keys |-> dirty, to_flush |-> {}, flushed |-> 0]
    /\ UNCHANGED <<auxVars, diskVars, up, data, wal, threadVars, dw, walLog, applied, nOps, nFaults>>

\* { let data = data.read(); dirty_keys.into_iter().map(..).collect() }
FlushSnapshot ==
    /\ fl.pc = "snapshot"
    /\ fl' = [fl EXCEPT !.pc = "write", !.to_flush = Snapshot(data, fl.keys), !.keys = {}]
    /\ UNCHANGED <<auxVars, diskVars, up, data, dirty, wal, threadVars, dw, stats, walLog, applied,
                   nOps, nFaults>>

\* writer.write_entry(&key, &val) or writer.write_tombstone(&key)
FlushWriteOne(item, fault, cut) ==
    IF item.present
    THEN write_entry(dw, dataDir, item.key, item.value, fault, cut)
    ELSE write_tombstone(dw, dataDir, item.key, fault, cut)

\* One iteration of `for (key, value) in to_flush`
FlushWrite(item, fault, cut) ==
    /\ fl.pc = "write" /\ item \in fl.to_flush
    /\ fault # "none" => nFaults < MaxFaults
    /\ fault \in {"rotate_sync", "rotate_open"} =>
          dw.size + DATA_HEADER_SIZE + Len(item.key) + Len(item.value) > MAX_DATA_FILE_SIZE
    /\ LET r == FlushWriteOne(item, fault, cut) IN
       /\ dataDir' = r.dir
       /\ dw' = r.w
       /\ dirty' = IF r.ok THEN dirty ELSE mark_dirty(dirty, item.key)
       /\ fl' = [fl EXCEPT !.to_flush = @ \ {item},
                           !.flushed = IF r.ok THEN @ + 1 ELSE @]
    /\ nFaults' = IF fault = "none" THEN nFaults ELSE nFaults + 1
    /\ UNCHANGED <<auxVars, walDir, walSynced, up, data, wal, threadVars, stats, walLog, applied, nOps>>

\* tracker.record_cycle(flushed)
FlushRecord ==
    /\ fl.pc = "write" /\ fl.to_flush = {}
    /\ stats' = record_cycle(stats, fl.flushed)
    /\ fl' = IdleFlusher
    /\ UNCHANGED <<auxVars, diskVars, up, data, dirty, wal, threadVars, dw, walLog, applied, nOps, nFaults>>

\* (mutant) a failed write is logged and the key is not marked again
flush_result_dropping(prev, key, r) ==
    [w |-> r.w, dir |-> r.dir, dirty |-> prev.dirty,
     flushed |-> IF r.ok THEN prev.flushed + 1 ELSE prev.flushed]

\* match result { Ok(_) => flushed += 1, Err(_) => tracker.mark_dirty(&key) }
flush_result(prev, key, r) ==
    [w |-> r.w, dir |-> r.dir,
     dirty |-> IF r.ok THEN prev.dirty ELSE mark_dirty(prev.dirty, key),
     flushed |-> IF r.ok THEN prev.flushed + 1 ELSE prev.flushed]

\* One iteration of `for (key, value) in to_flush` on the worker's state
\* so far; a failed write re-marks the key
flush_one(prev, item, kind, cut) ==
    flush_result(prev, item.key,
                 IF item.present
                 THEN write_entry(prev.w, prev.dir, item.key, item.value, kind, cut)
                 ELSE write_tombstone(prev.w, prev.dir, item.key, kind, cut))

\* The first n iterations of the loop of a cycle that nothing interleaves
\* with; `fault` strikes the write of item number fault.at
RECURSIVE flush_loop(_, _, _, _, _)
flush_loop(to_flush, n, w, dir, fault) ==
    IF n = 0 THEN [w |-> w, dir |-> dir, dirty |-> {}, flushed |-> 0]
    ELSE flush_one(flush_loop(to_flush, n - 1, w, dir, fault), to_flush[n],
                   IF fault.at = n THEN fault.kind ELSE "none", fault.cut)

\* (mutant) the snapshot takes no value: every dirty key is written as deleted
SnapshotAbsent(idx, key) == [key |-> key, present |-> FALSE, value |-> <<>>]

\* let value = data.get(&key).cloned(); (key, value)
SnapshotOf(idx, key) ==
    [key |-> key, present |-> key \in DOMAIN idx,
     value |-> IF key \in DOMAIN idx THEN idx[key] ELSE <<>>]

\* tracker.record_cycle(flushed) at the end of the cycle; the index was only
\* read
flush_end(idx, st, r) ==
    [data |-> idx, dirty |-> r.dirty, stats |-> record_cycle(st, r.flushed),
     w |-> r.w, dir |-> r.dir]

\* flush_dirty(data, tracker, writer) as one step; `order` is the order in
\* which the dirty HashSet hands out its keys
flush_dirty(idx, dirty_keys, st, w, dir, order, fault) ==
    IF dirty_keys = {}
    THEN [data |-> idx, dirty |-> {}, stats |-> record_cycle(st, 0), w |-> w, dir |-> dir]
    ELSE flush_end(idx, st,
                   flush_loop([i \in DOMAIN order |-> SnapshotOf(idx, order[i])],
                              Len(order), w, dir, fault))

(***************************************************************************)
(* Spec: the open engine, two caller threads and the trickle worker        *)
(***************************************************************************)
Next ==
    \/ \E t \in Threads, c \in Calls : Call(t, c)
    \/ \E t \in Threads, fc \in FaultCases(WalFaults) : WalStep(t, fc[1], fc[2])
    \/ \E t \in Threads : IndexStep(t)
    \/ \E t \in Threads : MarkStep(t)
    \/ \E t \in Threads, fault \in {"none", "sync"} : SyncWal(t, fault)
    \/ FlushTake
    \/ FlushSnapshot
    \/ \E item \in fl.to_flush, fc \in FaultCases(DataFaults) : FlushWrite(item, fc[1], fc[2])
    \/ FlushRecord

Spec == Init /\ [][Next]_vars

(***************************************************************************)
(* SpecCrash: one caller, calls made one at a time; the process can be     *)
(* dropped or lose power, also in the middle of a write, and be reopened.  *)
(***************************************************************************)
MaxOpens == 3

\* The calls of SpecCrash, all on one key and within the size caps
SeqCalls ==
    {[op |-> "put", key |-> K1, value |-> V1],
     [op |-> "put_fast", key |-> K1, value |-> V2],
     [op |-> "delete", key |-> K1, value |-> <<>>]}

\* How many bytes of an interrupted record reach the file: the magic alone,
\* or the header and four bytes of the payload
TearCuts == {4, 36}

\* ClawStoreEngine::put, put_fast or delete, called alone and returning Ok
SeqCall(c) ==
    /\ up /\ nOps < MaxOps
    /\ LET r == WalAppend(c, "none", 0)
           e == Entry(c.key, c.value, OpOf(c))
       IN  /\ r.ok
           /\ walDir' = r.dir
           /\ walSynced' = r.synced
           /\ wal' = r.w
           /\ data' = IndexUpdate(data, c)
           /\ dirty' = mark_dirty(dirty, c.key)
           /\ walLog' = Append(walLog, e)
           /\ fastAcked' = IF c.op = "put_fast" THEN fastAcked \cup {e} ELSE fastAcked
    /\ deleted' = IF c.op = "delete" THEN deleted \cup {c.key} ELSE deleted \ {c.key}
    /\ session' = [session EXCEPT !.durable = @ /\ c.op # "put_fast"]
    /\ nOps' = nOps + 1
    /\ UNCHANGED <<dataDir, up, threadVars, extVars, flushVars, applied, nFaults, committed,
                   recoverVars, authVars, compacted>>

\* ClawStoreEngine::sync_wal, returning Ok
SeqSyncWal ==
    /\ up /\ nOps < MaxOps
    /\ LET r == sync(wal, walDir, walSynced, "none") IN
       /\ r.ok
       /\ walSynced' = r.synced
    /\ committed' = fastAcked
    /\ nOps' = nOps + 1
    /\ UNCHANGED <<walDir, dataDir, up, data, dirty, wal, threadVars, extVars, flushVars, walLog,
                   applied, nFaults, session, deleted, fastAcked, recoverVars, authVars,
                   compacted>>

\* Power is lost while the write_all of a call's append is under way: `cut`
\* bytes of the record are in the file, the call never returns
TornWrite(c, cut) ==
    /\ up /\ nOps < MaxOps
    /\ LET r == WalAppend(c, "write", cut) IN
       /\ walDir' = r.dir
       /\ walSynced' = [q \in DOMAIN r.dir |-> Len(r.dir[q])]
    /\ up' = FALSE
    /\ deleted' = IF c.op = "delete" THEN deleted ELSE deleted \ {c.key}
    /\ session' = [session EXCEPT !.clean = FALSE]
    /\ nOps' = nOps + 1
    /\ UNCHANGED <<dataDir, data, dirty, wal, threadVars, extVars, flushVars, walLog, applied, nFaults,
                   fastAcked, committed, recoverVars, authVars, compacted>>

\* The lengths a file can have after power loss: what was synced survives,
\* of the rest any prefix may
CrashLengths(q) ==
    {n \in {walSynced[q], Len(walDir[q])} \cup {walSynced[q] + cut : cut \in TearCuts} :
        n <= Len(walDir[q])}

\* The outcomes of a power loss: a surviving length for every file
CrashKeeps ==
    {keep \in [DOMAIN walDir -> UNION {CrashLengths(q) : q \in DOMAIN walDir}] :
        \A q \in DOMAIN walDir : keep[q] \in CrashLengths(q)}

\* Power is lost between calls
Crash(keep) ==
    /\ up
    /\ walDir' = [q \in DOMAIN walDir |-> Prefix(walDir[q], keep[q])]
    /\ walSynced' = keep
    /\ up' = FALSE
    /\ session' = [session EXCEPT !.clean = FALSE]
    /\ UNCHANGED <<dataDir, data, dirty, wal, threadVars, extVars, flushVars, walLog, applied, nOps,
                   nFaults, deleted, fastAcked, committed, recoverVars, authVars, compacted>>

\* The engine is dropped: nothing is written, the process ends in order
DropEngine ==
    /\ up
    /\ up' = FALSE
    /\ session' = [session EXCEPT !.clean = TRUE, !.index = data]
    /\ UNCHANGED <<diskVars, data, dirty, wal, threadVars, extVars, flushVars, walLog, applied, nOps,
                   nFaults, deleted, fastAcked, committed, recoverVars, authVars, compacted>>

\* ClawStoreEngine::open on the root: replay, then WalWriter::new
OpenEngine ==
    /\ ~up /\ session.opens < MaxOpens
    /\ LET o == WalWriter_new(walDir, walSynced) IN
       /\ data' = open_index(walDir, dataDir)
       /\ walLog' = recover_entries(walDir)
       /\ walDir' = o.dir
       /\ walSynced' = o.synced
       /\ wal' = o.w
    /\ dirty' = {}
    /\ up' = TRUE
    /\ nOps' = 0
    /\ session' = [session EXCEPT !.opens = @ + 1, !.durable = TRUE, !.existing = DOMAIN walDir]
    /\ fastAcked' = {}
    /\ UNCHANGED <<dataDir, threadVars, extVars, flushVars, applied, nFaults, deleted, committed,
                   recoverVars, authVars, compacted>>

NextCrash ==
    \/ \E c \in SeqCalls : SeqCall(c)
    \/ SeqSyncWal
    \/ \E c \in SeqCalls, cut \in TearCuts : TornWrite(c, cut)
    \/ \E keep \in CrashKeeps : Crash(keep)
    \/ DropEngine
    \/ OpenEngine

SpecCrash == Init /\ [][NextCrash]_vars

(***************************************************************************)
(* SpecRecover: WAL files as the writer leaves them, with a record torn by *)
(* a crash or one record damaged at rest, handed to recover_entries.       *)
(***************************************************************************)
MaxItems == 3

\* The records written: one with a four-byte value, one whose key is the
\* four magic bytes, one delete
RecEntries ==
    {Entry(K1, V2, OpPut), Entry(MAGIC_ARRAY, <<>>, OpPut), Entry(K2, <<>>, OpDelete)}

\* An item of a file's layout: what became of the record of `entry`, and
\* the bytes it takes in the file
Item(kind, e, size) == [kind |-> kind, entry |-> e, size |-> size]

\* The layout grown by the files of dir it does not list yet
LayoutOn(dir) == [q \in DOMAIN dir |-> IF q \in DOMAIN layout THEN layout[q] ELSE <<>>]

Damaged == \E q \in DOMAIN layout : \E i \in DOMAIN layout[q] : layout[q][i].kind = "corrupt"

\* WalWriter::append_durable returning Ok
RecAppend(e) ==
    /\ ~recovered.done /\ nOps < MaxItems
    /\ LET r == append_durable(wal, walDir, walSynced, e.key, e.value, e.operation, "none", 0) IN
       /\ r.ok
       /\ walDir' = r.dir
       /\ walSynced' = r.synced
       /\ wal' = r.w
       /\ layout' = [LayoutOn(r.dir) EXCEPT
                        ![r.w.file] = Append(@, Item("intact", e, encoded_len(e.key, e.value)))]
    /\ nOps' = nOps + 1
    /\ UNCHANGED <<dataDir, up, data, dirty, threadVars, extVars, flushVars, walLog, applied, nFaults,
                   crashVars, recovered, authVars, compacted>>

\* A crash cuts the write_all of append_durable after `cut` bytes; the next
\* engine's WalWriter::new takes the directory over
RecTear(e, cut) ==
    /\ ~recovered.done /\ nOps < MaxItems
    /\ LET r == append_durable(wal, walDir, walSynced, e.key, e.value, e.operation, "write", cut)
           o == WalWriter_new(r.dir, r.synced)
       IN  /\ walDir' = o.dir
           /\ walSynced' = [q \in DOMAIN o.dir |-> Len(o.dir[q])]
           /\ wal' = o.w
           /\ layout' = [LayoutOn(o.dir) EXCEPT ![r.w.file] = Append(@, Item("torn", e, cut))]
    /\ nOps' = nOps + 1
    /\ UNCHANGED <<dataDir, up, data, dirty, threadVars, extVars, flushVars, walLog, applied, nFaults,
                   crashVars, recovered, authVars, compacted>>

\* Where item i of file q starts
RECURSIVE ItemOffset(_, _)
ItemOffset(items, i) == IF i = 1 THEN 0 ELSE ItemOffset(items, i - 1) + items[i - 1].size

\* The bytes of a file with the record at `offset` damaged: its padding byte
\* flipped ("crc"), or rewritten with kind byte 3 under a matching checksum
DamagedFile(file, offset, e, how) ==
    IF how = "crc" THEN [file EXCEPT ![offset + HEADER_SIZE + 8] = BitXor(@, 255)]
    ELSE LET n == encoded_len(e.key, e.value)
         IN  Prefix(file, offset) \o serialize_entry(e.key, e.value, 3).bytes
               \o Slice(file, offset + n, Len(file))

\* One record that is not the last of its file is damaged at rest
RecCorrupt(q, i, how) ==
    /\ ~recovered.done /\ ~Damaged
    /\ q \in DOMAIN layout /\ i \in DOMAIN layout[q] /\ i < Len(layout[q])
    /\ layout[q][i].kind = "intact"
    /\ walDir' = [walDir EXCEPT ![q] =
                     DamagedFile(@, ItemOffset(layout[q], i), layout[q][i].entry, how)]
    /\ layout' = [layout EXCEPT ![q][i].kind = "corrupt"]
    /\ UNCHANGED <<walSynced, dataDir, up, data, dirty, wal, threadVars, extVars, flushVars, walLog,
                   applied, nOps, nFaults, crashVars, recovered, authVars, compacted>>

\* WalReader::recover_entries
Recover ==
    /\ ~recovered.done
    /\ recovered' = [done |-> TRUE, entries |-> recover_entries(walDir)]
    /\ UNCHANGED <<diskVars, up, data, dirty, wal, threadVars, extVars, flushVars, walLog, applied,
                   nOps, nFaults, crashVars, layout, authVars, compacted>>

NextRecover ==
    \/ \E e \in RecEntries : RecAppend(e)
    \/ \E e \in RecEntries, cut \in TearCuts : RecTear(e, cut)
    \/ \E q \in 0..MaxItems, i \in 1..MaxItems, how \in {"crc", "kind"} : RecCorrupt(q, i, how)
    \/ Recover

SpecRecover == Init /\ [][NextRecover]_vars

(***************************************************************************)
(* SpecAuth: two roots hold the same WAL files and data directories of     *)
(* their own; both are opened.                                             *)
(***************************************************************************)
MaxWrites == 3

Roots == {"A", "B"}

\* The records appended to the WAL of both roots
AuthCalls ==
    {[op |-> "put", key |-> K1, value |-> V1],
     [op |-> "delete", key |-> K1, value |-> <<>>],
     [op |-> "put", key |-> K2, value |-> V1]}

\* The records a data directory can hold: another value or a tombstone for
\* a key, a key the WAL may not have
DataItems ==
    {[key |-> K1, present |-> TRUE, value |-> V2],
     [key |-> K1, present |-> FALSE, value |-> <<>>],
     [key |-> K2, present |-> TRUE, value |-> V2]}

\* A record is appended to the WAL directory both roots hold
AuthWalAppend(c) ==
    /\ ~up /\ nOps < MaxWrites
    /\ LET r == WalAppend(c, "none", 0) IN
       /\ r.ok
       /\ walDir' = r.dir
       /\ walSynced' = r.synced
       /\ wal' = r.w
    /\ nOps' = nOps + 1
    /\ UNCHANGED <<dataDir, up, data, dirty, threadVars, extVars, flushVars, walLog, applied, nFaults,
                   crashVars, recoverVars, authVars, compacted>>

\* DataFileWriter::write_entry or write_tombstone on the data directory of a root
AuthDataWrite(root, item) ==
    /\ ~up /\ nOps < MaxWrites
    /\ IF root = "A"
       THEN LET r == write_internal(dw, dataDir, item.key, item.value, ~item.present, "none", 0)
            IN  /\ r.ok
                /\ dataDir' = r.dir
                /\ dw' = r.w
                /\ UNCHANGED <<dataDirB, dwB>>
       ELSE LET r == write_internal(dwB, dataDirB, item.key, item.value, ~item.present, "none", 0)
            IN  /\ r.ok
                /\ dataDirB' = r.dir
                /\ dwB' = r.w
                /\ UNCHANGED <<dataDir, dw>>
    /\ nOps' = nOps + 1
    /\ UNCHANGED <<walDir, walSynced, up, data, dirty, wal, threadVars, extVars, fl, stats, walLog,
                   applied, nFaults, crashVars, recoverVars, indexB, compacted>>

\* ClawStoreEngine::open on both roots
AuthOpen ==
    /\ ~up
    /\ data' = open_index(walDir, dataDir)
    /\ indexB' = open_index(walDir, dataDirB)
    /\ up' = TRUE
    /\ UNCHANGED <<diskVars, dirty, wal, threadVars, extVars, flushVars, walLog, applied, nOps, nFaults,
                   crashVars, recoverVars, dataDirB, dwB, compacted>>

NextAuth ==
    \/ \E c \in AuthCalls : AuthWalAppend(c)
    \/ \E root \in Roots, item \in DataItems : AuthDataWrite(root, item)
    \/ AuthOpen

SpecAuth == InitDown /\ [][NextAuth]_vars

(***************************************************************************)
(* SpecCompact: a DataFileWriter fills data files and is closed; then      *)
(* compact_file runs on a file.                                            *)
(***************************************************************************)
MaxRecords == 4

MaxCompactions == 2

\* The records written: two values for one key, a value and a tombstone for
\* another
CompactItems ==
    {[key |-> K1, present |-> TRUE, value |-> V1],
     [key |-> K1, present |-> TRUE, value |-> V2],
     [key |-> K2, present |-> TRUE, value |-> V1],
     [key |-> K2, present |-> FALSE, value |-> <<>>]}

\* DataFileWriter::write_entry or write_tombstone; a failing write leaves
\* the bytes it got out in the file
CompactWrite(item, fault, cut) ==
    /\ up /\ nOps < MaxRecords
    /\ fault \in {"none", "write"}
    /\ fault # "none" => nFaults < MaxFaults
    /\ LET r == FlushWriteOne(item, fault, cut) IN
       /\ dataDir' = r.dir
       /\ dw' = r.w
    /\ nOps' = nOps + 1
    /\ nFaults' = IF fault = "none" THEN nFaults ELSE nFaults + 1
    /\ UNCHANGED <<walDir, walSynced, up, data, dirty, wal, threadVars, extVars, fl, stats, walLog,
                   applied, crashVars, recoverVars, authVars, compacted>>

\* The writer is dropped
CloseWriter ==
    /\ up
    /\ up' = FALSE
    /\ UNCHANGED <<diskVars, data, dirty, wal, threadVars, extVars, flushVars, walLog, applied, nOps,
                   nFaults, crashVars, recoverVars, authVars, compacted>>

\* The orders in which compact_file can write the live entries of a file
LiveOrders(file) == Orders(LiveKeys(LatestOf(scan_all(file), 1, <<>>)))

\* compact_file on data-<q>.claw; a second run is on the file the first one
\* replaced (`again`)
CompactFile(q, order, fault, cut) ==
    /\ ~up /\ compacted.runs < MaxCompactions
    /\ q \in DOMAIN dataDir
    /\ compacted.runs > 0 => compacted.replaced /\ compacted.file = q
    /\ fault # "none" => nFaults < MaxFaults
    /\ fault = "write" => Len(order) > 0
    /\ order \in LiveOrders(dataDir[q])
    /\ LET r == compact_file(dataDir[q], order, fault, cut) IN
       /\ dataDir' = [dataDir EXCEPT ![q] = r.after]
       /\ compacted' = [runs |-> compacted.runs + 1, ok |-> r.ok, replaced |-> r.replaced,
                        file |-> q, before |-> dataDir[q], after |-> r.after,
                        has_temp |-> r.has_temp, temp |-> r.temp,
                        original_entries |-> r.original_entries,
                        live_entries |-> r.live_entries,
                        removed_entries |-> r.removed_entries,
                        again |-> compacted.replaced /\ compacted.file = q,
                        crashed |-> FALSE]
    /\ nFaults' = IF fault = "none" THEN nFaults ELSE nFaults + 1
    /\ UNCHANGED <<walDir, walSynced, up, data, dirty, wal, threadVars, extVars, flushVars, walLog,
                   applied, nOps, crashVars, recoverVars, authVars>>

\* The process stops inside compact_file on data-<q>.claw at `stop`; after a
\* power loss a rename whose directory was not synced may or may not have
\* reached the disk
CompactCrash(q, order, stop, cut, persisted) ==
    /\ ~up /\ compacted.runs = 0
    /\ q \in DOMAIN dataDir
    /\ stop \in CompactStops \ {"none"}
    /\ stop = "write" => Len(order) > 0
    /\ ~persisted => stop = "dirsync"
    /\ order \in LiveOrders(dataDir[q])
    /\ LET out == compact_bytes(LatestOf(scan_all(dataDir[q]), 1, <<>>), order, 1)
           p == compact_progress(dataDir[q], out, IF persisted THEN stop ELSE "rename", cut)
       IN
       /\ dataDir' = [dataDir EXCEPT ![q] = p.after]
       /\ compacted' = [NoCompaction EXCEPT !.runs = compacted.runs + 1,
                           !.replaced = p.replaced, !.file = q, !.before = dataDir[q],
                           !.after = p.after, !.has_temp = p.has_temp, !.temp = p.temp,
                           !.crashed = TRUE]
    /\ UNCHANGED <<walDir, walSynced, up, data, dirty, wal, threadVars, extVars, flushVars, walLog,
                   applied, nOps, nFaults, crashVars, recoverVars, authVars>>

NextCompact ==
    \/ \E item \in CompactItems, fc \in FaultCases({"none", "write"}) :
          CompactWrite(item, fc[1], fc[2])
    \/ CloseWriter
    \/ \E q \in 1..(MaxRecords + 1), order \in UNION {Orders(S) : S \in SUBSET Keys},
          fc \in FaultCases(CompactFaults) : CompactFile(q, order, fc[1], fc[2])
    \/ \E q \in 1..(MaxRecords + 1), order \in UNION {Orders(S) : S \in SUBSET Keys},
          fc \in FaultCases(CompactStops \ {"none"}), persisted \in BOOLEAN :
          CompactCrash(q, order, fc[1], fc[2], persisted)

SpecCompact == Init /\ [][NextCompact]_vars

(***************************************************************************)
(* SpecNeeds: records are appended to a data file, then needs_compaction   *)
(* is asked about it.                                                      *)
(***************************************************************************)
MaxScanRecords == 5

K3 == <<3>>

K4 == <<4>>

\* The records of the file: a value for each of four keys, a tombstone
ScanItems ==
    {[key |-> k, present |-> TRUE, value |-> V1] : k \in {K1, K2, K3, K4}}
      \cup {[key |-> K1, present |-> FALSE, value |-> <<>>]}

\* The thresholds asked for, as the decimal literals num/den: 0.2, 0.25 and
\* 0.3 (the compaction_trigger_ratio of the shipped configurations) and 0.5
Thresholds == {<<1, 5>>, <<1, 4>>, <<3, 10>>, <<1, 2>>}

\* A record reaches the file through write_entry or write_tombstone
ScanAppend(item) ==
    /\ ~needs.done /\ nOps < MaxScanRecords
    /\ scanFile' = scanFile \o data_record(item.key, item.value, ~item.present)
    /\ nOps' = nOps + 1
    /\ UNCHANGED <<diskVars, up, data, dirty, wal, threadVars, flushVars, walLog, applied,
                   nFaults, crashVars, recoverVars, authVars, compacted, needs, cycle, tr, obsVars>>

\* A write is cut short after `cut` bytes
ScanTear(item, cut) ==
    /\ ~needs.done /\ nOps < MaxScanRecords /\ nFaults < MaxFaults
    /\ scanFile' = scanFile \o Prefix(data_record(item.key, item.value, ~item.present), cut)
    /\ nOps' = nOps + 1
    /\ nFaults' = nFaults + 1
    /\ UNCHANGED <<diskVars, up, data, dirty, wal, threadVars, flushVars, walLog, applied,
                   crashVars, recoverVars, authVars, compacted, needs, cycle, tr, obsVars>>

\* needs_compaction(file, threshold)
NeedsCompaction(th) ==
    /\ ~needs.done
    /\ needs' = [done |-> TRUE, threshold |-> th,
                 result |-> needs_compaction(scanFile, f64_div(th[1], th[2]))]
    /\ UNCHANGED <<diskVars, up, data, dirty, wal, threadVars, flushVars, walLog, applied,
                   nOps, nFaults, crashVars, recoverVars, authVars, compacted, scanFile, cycle, tr, obsVars>>

NextNeeds ==
    \/ \E item \in ScanItems : ScanAppend(item)
    \/ \E item \in ScanItems, cut \in Cuts : ScanTear(item, cut)
    \/ \E th \in Thresholds : NeedsCompaction(th)

SpecNeeds == Init /\ [][NextNeeds]_vars

(***************************************************************************)
(* SpecFlush: calls are made one at a time and the worker runs whole flush *)
(* cycles between them.                                                    *)
(***************************************************************************)
MaxFlushes == 2

\* The calls of SpecFlush: two values for one key, another key, two deletes
FlushCalls ==
    {[op |-> "put", key |-> K1, value |-> V1],
     [op |-> "put", key |-> K1, value |-> V2],
     [op |-> "put_fast", key |-> K2, value |-> V1],
     [op |-> "delete", key |-> K1, value |-> <<>>],
     [op |-> "delete", key |-> K2, value |-> <<>>]}

\* The records of the files of a data directory, in file order
RECURSIVE scan_files(_, _)
scan_files(dir, seqs) ==
    IF seqs = {} THEN <<>>
    ELSE LET lo == CHOOSE q \in seqs : \A r \in seqs : q <= r
         IN  scan_all(dir[lo]) \o scan_files(dir, seqs \ {lo})

\* One cycle of the worker with no call under way
FlushCycle(order, fault) ==
    /\ up /\ stats.total_cycles < MaxFlushes
    /\ order \in Orders(dirty)
    /\ fault.kind # "none" => nFaults < MaxFaults /\ fault.at <= Len(order)
    /\ \E r \in {flush_dirty(data, dirty, stats, dw, dataDir, order, fault)} :
       /\ data' = r.data
       /\ dirty' = r.dirty
       /\ stats' = r.stats
       /\ dw' = r.w
       /\ dataDir' = r.dir
       /\ cycle' = [done |-> TRUE, failed |-> fault.kind # "none", keys |-> dirty,
                    index |-> data, index_after |-> r.data,
                    before |-> scan_files(dataDir, DOMAIN dataDir),
                    after |-> scan_files(r.dir, DOMAIN r.dir), dirty_after |-> r.dirty]
    /\ nFaults' = IF fault.kind = "none" THEN nFaults ELSE nFaults + 1
    /\ UNCHANGED <<walDir, walSynced, up, wal, threadVars, fl, walLog, applied, nOps,
                   crashVars, recoverVars, authVars, compacted, scanFile, needs, tr, obsVars>>

\* The faults of a cycle: none, or the write of the first or second item
\* fails after `cut` bytes or at its sync
FlushFaults ==
    {[at |-> 0, kind |-> "none", cut |-> 0]}
      \cup {[at |-> i, kind |-> "write", cut |-> c] : i \in 1..2, c \in Cuts}
      \cup {[at |-> i, kind |-> "sync", cut |-> 0] : i \in 1..2}

NextFlush ==
    \/ \E c \in FlushCalls : SeqCall(c)
    \/ \E order \in UNION {Orders(S) : S \in SUBSET Keys}, fault \in FlushFaults :
          FlushCycle(order, fault)

SpecFlush == Init /\ [][NextFlush]_vars

(***************************************************************************)
(* SpecTrickle: the trickle thread (trickle_loop) with calls made one at a *)
(* time, and the shutdown of its handle by stop_trickle or by a drop.      *)
(***************************************************************************)
\* How the handle is shut down: ClawStoreEngine::stop_trickle, the drop of
\* the engine, the drop of a TrickleHandle
StopHows == {"stop_trickle", "drop_engine", "drop_handle"}

\* (mutant) the worker never sees the flag set
shutdown_load_never(flag) == FALSE

\* shutdown.load(Ordering::Acquire)
shutdown_load(flag) == flag

\* start_trickle: the thread is spawned and has created its DataFileWriter
StartTrickle ==
    /\ up /\ tr.worker = "none"
    /\ tr' = [tr EXCEPT !.worker = "sleep"]
    /\ UNCHANGED <<diskVars, up, data, dirty, wal, threadVars, flushVars, walLog, applied, nOps,
                   nFaults, crashVars, recoverVars, authVars, compacted, scanFile, needs, cycle, obsVars>>

\* The worker finds the flag set, in a sleep slice or after its sleep
WorkerObserve ==
    /\ tr.worker \in {"sleep", "after"}
    /\ shutdown_load(tr.shutdown)
    /\ tr' = [tr EXCEPT !.worker = "final"]
    /\ UNCHANGED <<diskVars, up, data, dirty, wal, threadVars, flushVars, walLog, applied, nOps,
                   nFaults, crashVars, recoverVars, authVars, compacted, scanFile, needs, cycle, obsVars>>

\* The flag is clear in the last sleep slice and wake_time has passed
WorkerWake ==
    /\ tr.worker = "sleep" /\ stats.total_cycles < MaxFlushes
    /\ ~shutdown_load(tr.shutdown)
    /\ tr' = [tr EXCEPT !.worker = "after"]
    /\ UNCHANGED <<diskVars, up, data, dirty, wal, threadVars, flushVars, walLog, applied, nOps,
                   nFaults, crashVars, recoverVars, authVars, compacted, scanFile, needs, cycle, obsVars>>

\* The flag is clear after the sleep: a regular cycle is due
WorkerGo ==
    /\ tr.worker = "after"
    /\ ~shutdown_load(tr.shutdown)
    /\ tr' = [tr EXCEPT !.worker = "regular"]
    /\ UNCHANGED <<diskVars, up, data, dirty, wal, threadVars, flushVars, walLog, applied, nOps,
                   nFaults, crashVars, recoverVars, authVars, compacted, scanFile, needs, cycle, obsVars>>

\* flush_dirty, as the regular cycle or as the final one before the return:
\* take_dirty; an empty set ends the cycle at once. `armed` when the flag
\* was set before the keys were taken
WorkerTake ==
    /\ tr.worker \in {"regular", "final"} /\ fl.pc = "sleep"
    /\ dirty' = {}
    /\ IF dirty = {}
       THEN /\ stats' = record_cycle(stats, 0)
            /\ fl' = fl
            /\ tr' = [tr EXCEPT !.worker = IF tr.worker = "final" THEN "exited" ELSE "sleep",
                                !.finals = IF tr.worker = "final" THEN @ + 1 ELSE @]
       ELSE /\ stats' = stats
            /\ fl' = [pc |-> "snapshot", keys |-> dirty, to_flush |-> {}, flushed |-> 0]
            /\ tr' = [tr EXCEPT !.armed = tr.shutdown]
    /\ UNCHANGED <<diskVars, up, data, wal, threadVars, dw, walLog, applied, nOps, nFaults,
                   crashVars, recoverVars, authVars, compacted, scanFile, needs, cycle, obsVars>>

\* The snapshot under the read lock
WorkerSnapshot ==
    /\ tr.worker \in {"regular", "final"} /\ fl.pc = "snapshot"
    /\ fl' = [fl EXCEPT !.pc = "write", !.to_flush = Snapshot(data, fl.keys), !.keys = {}]
    /\ UNCHANGED <<diskVars, up, data, dirty, wal, threadVars, dw, stats, walLog, applied, nOps,
                   nFaults, crashVars, recoverVars, authVars, compacted, extVars>>

\* One iteration of the write loop, by the result of write_entry or
\* write_tombstone (the bytes written are those of FlushWrite); a failed
\* write re-marks the key
WorkerWrite(item, ok) ==
    /\ tr.worker \in {"regular", "final"} /\ fl.pc = "write" /\ item \in fl.to_flush
    /\ ~ok => nFaults < MaxFaults
    /\ dirty' = IF ok THEN dirty ELSE mark_dirty(dirty, item.key)
    /\ fl' = [fl EXCEPT !.to_flush = @ \ {item}, !.flushed = IF ok THEN @ + 1 ELSE @]
    /\ tr' = [tr EXCEPT !.pending = IF ok /\ tr.armed THEN @ \ {item.key} ELSE @,
                        !.failed = @ \/ ~ok]
    /\ nFaults' = IF ok THEN nFaults ELSE nFaults + 1
    /\ UNCHANGED <<diskVars, up, data, wal, threadVars, dw, stats, walLog, applied, nOps,
                   crashVars, recoverVars, authVars, compacted, scanFile, needs, cycle, obsVars>>

\* tracker.record_cycle(flushed); the regular cycle goes back to sleep, the
\* final one returns from trickle_loop
WorkerRecord ==
    /\ tr.worker \in {"regular", "final"} /\ fl.pc = "write" /\ fl.to_flush = {}
    /\ stats' = record_cycle(stats, fl.flushed)
    /\ fl' = IdleFlusher
    /\ tr' = [tr EXCEPT !.worker = IF tr.worker = "final" THEN "exited" ELSE "sleep",
                        !.finals = IF tr.worker = "final" THEN @ + 1 ELSE @]
    /\ UNCHANGED <<diskVars, up, data, dirty, wal, threadVars, dw, walLog, applied, nOps,
                   nFaults, crashVars, recoverVars, authVars, compacted, scanFile, needs, cycle, obsVars>>

\* self.shutdown.store(true, Ordering::Release) in TrickleHandle::shutdown or
\* in its Drop; a dropped engine takes no more calls
StopSignal(how) ==
    /\ tr.worker # "none" /\ tr.caller = "idle"
    /\ up' = (up /\ how # "drop_engine")
    /\ tr' = [tr EXCEPT !.shutdown = TRUE, !.caller = "join", !.how = how,
                        !.pending = dirty, !.at_signal = dirty]
    /\ UNCHANGED <<diskVars, data, dirty, wal, threadVars, flushVars, walLog, applied, nOps,
                   nFaults, crashVars, recoverVars, authVars, compacted, scanFile, needs, cycle, obsVars>>

\* handle.join() returns once the thread has ended, and so does the call
StopJoin ==
    /\ tr.caller = "join" /\ tr.worker = "exited"
    /\ tr' = [tr EXCEPT !.caller = "returned"]
    /\ UNCHANGED <<diskVars, up, data, dirty, wal, threadVars, flushVars, walLog, applied, nOps,
                   nFaults, crashVars, recoverVars, authVars, compacted, scanFile, needs, cycle, obsVars>>

WorkerStep ==
    \/ WorkerObserve
    \/ WorkerWake
    \/ WorkerGo
    \/ WorkerTake
    \/ WorkerSnapshot
    \/ \E item \in fl.to_flush, ok \in BOOLEAN : WorkerWrite(item, ok)
    \/ WorkerRecord

NextTrickle ==
    \/ \E c \in FlushCalls : SeqCall(c)
    \/ StartTrickle
    \/ WorkerStep
    \/ \E how \in StopHows : StopSignal(how)
    \/ StopJoin

SpecTrickle == Init /\ [][NextTrickle]_vars

\* The thread is scheduled, and a join on an ended thread returns
SpecTrickleFair == SpecTrickle /\ WF_vars(WorkerStep) /\ WF_vars(StopJoin)

(***************************************************************************)
(* SpecSize: one caller makes calls whose key and value lie at and around  *)
(* the size caps; every call runs from entry to return.                    *)
(***************************************************************************)
MaxSizeCalls == 2

\* A key of exactly MAX_KEY_SIZE bytes
KMax == <<7, 7, 7, 7>>

\* Keys of 1, MAX_KEY_SIZE and MAX_KEY_SIZE + 1 bytes, values of 0, 1,
\* MAX_VALUE_SIZE and MAX_VALUE_SIZE + 1 bytes; delete passes the empty value
SizeCalls ==
    [op : {"put", "put_fast"}, key : {K1, KMax, KBig}, value : {<<>>, V1, V2, VBig}]
      \cup [op : {"delete"}, key : {K1, KMax, KBig}, value : {<<>>}]

\* The record of a call: what it returned and the state it found
LastCall(c, err) ==
    [n |-> last.n + 1, call |-> c, err |-> err, out |-> <<>>, dir |-> walDir, w |-> wal,
     index |-> data, dirty |-> dirty]

\* ClawStoreEngine::put, put_fast or delete from entry to return: the WAL
\* scope, whose error `?` returns, then the index scope and mark_dirty
SizeCall(c) ==
    /\ up /\ last.n < MaxSizeCalls
    /\ \E r \in {WalAppend(c, "none", 0)} :
          /\ walDir' = r.dir
          /\ walSynced' = r.synced
          /\ wal' = r.w
          /\ data' = IF r.ok THEN IndexUpdate(data, c) ELSE data
          /\ dirty' = IF r.ok THEN mark_dirty(dirty, c.key) ELSE dirty
          /\ walLog' = IF r.ok THEN Append(walLog, Entry(c.key, c.value, OpOf(c))) ELSE walLog
          /\ last' = LastCall(c, r.err)
    /\ UNCHANGED <<dataDir, up, threadVars, flushVars, applied, nOps, nFaults, crashVars,
                   recoverVars, authVars, compacted, scanFile, needs, cycle, tr, cfg>>

NextSize == \E c \in SizeCalls : SizeCall(c)

SpecSize == Init /\ [][NextSize]_vars

(***************************************************************************)
(* SpecConfig: the calls of SpecSize on an engine opened with any of the   *)
(* shipped configurations. open stores the Config in the engine            *)
(* (engine.rs:98); no operation reads it.                                  *)
(***************************************************************************)
\* ClawStoreEngine::open(path, config) on an empty root
InitConfig ==
    /\ InitEngine /\ up = TRUE /\ InitThreads
    /\ InitCrashVars /\ InitRecoverVars /\ InitAuthVars /\ compacted = NoCompaction
    /\ scanFile = <<>> /\ needs = NoNeeds /\ cycle = NoCycle /\ tr = NoTrickle
    /\ cfg \in Configs
    /\ last = NoLast

SpecConfig == InitConfig /\ [][NextSize]_vars

(***************************************************************************)
(* SpecKeys: the calls of one caller with keys from the empty one up to    *)
(* the cap.                                                                *)
(***************************************************************************)
\* Keys of 0, 1 and MAX_KEY_SIZE bytes, with an empty and a one-byte value
KeyCalls ==
    [op : {"put", "put_fast"}, key : {<<>>, K1, KMax}, value : {<<>>, V1}]
      \cup [op : {"delete"}, key : {<<>>, K1, KMax}, value : {<<>>}]

NextKeys == \E c \in KeyCalls : SizeCall(c)

SpecKeys == Init /\ [][NextKeys]_vars

(***************************************************************************)
(* SpecData: entries and tombstones are written through one                *)
(* DataFileWriter, some writes failing; every write runs from entry to     *)
(* return.                                                                 *)
(***************************************************************************)
MaxDataWrites == 4

\* The records written: two values of different length, a tombstone
WriteItems ==
    {[key |-> K1, present |-> TRUE, value |-> V1],
     [key |-> K2, present |-> TRUE, value |-> V2],
     [key |-> K1, present |-> FALSE, value |-> <<>>]}

\* What a failing write_all got out: the magic, or the whole header
DataCuts == {4, 24}

\* write_entry(key, value) or write_tombstone(key) on the writer; the offset
\* it returned is kept with the call
DataWrite(item, fault, cut) ==
    /\ last.n < MaxDataWrites
    /\ fault # "none" => nFaults < MaxFaults
    /\ fault # "write" => cut = 4
    /\ fault \in {"rotate_sync", "rotate_open"} =>
          dw.size + DATA_HEADER_SIZE + Len(item.key) + Len(item.value) > MAX_DATA_FILE_SIZE
    /\ \E r \in {FlushWriteOne(item, fault, cut)} :
          /\ dataDir' = r.dir
          /\ dw' = r.w
          /\ last' = [LastCall([op |-> IF item.present THEN "write_entry" ELSE "write_tombstone",
                                key |-> item.key, value |-> item.value],
                               IF r.ok THEN "" ELSE "Io")
                        EXCEPT !.out = r.offset]
    /\ nFaults' = IF fault = "none" THEN nFaults ELSE nFaults + 1
    /\ UNCHANGED <<walDir, walSynced, up, data, dirty, wal, threadVars, fl, stats, walLog,
                   applied, nOps, crashVars, recoverVars, authVars, compacted, scanFile, needs,
                   cycle, tr, cfg>>

NextData ==
    \E item \in WriteItems, fault \in DataFaults, cut \in DataCuts : DataWrite(item, fault, cut)

SpecData == Init /\ [][NextData]_vars

(***************************************************************************)
(* SpecCodec: a key, a value and a kind are encoded with serialize_entry   *)
(* and the bytes are handed to deserialize_entry.                          *)
(***************************************************************************)
\* Keys of 0 to MAX_KEY_SIZE bytes, one of them the magic; a high byte
CodecKeys == {<<>>, K1, K2, <<1, 1>>, <<255, 0>>, <<1, 1, 0>>, KMax, MAGIC_ARRAY}

\* Values of 0 to MAX_VALUE_SIZE bytes
CodecValues == {<<>>, V1, <<0>>, <<255, 255>>, <<1, 0, 2>>, V2, MAGIC_ARRAY}

\* serialize_entry(key, value, op) for an input within the caps
Encode(key, value, op) ==
    /\ last.n = 0
    /\ \E e \in {serialize_entry(key, value, op)} :
          last' = [LastCall([op |-> "serialize_entry", key |-> key, value |-> value], e.err)
                    EXCEPT !.out = [kind |-> op, bytes |-> e.bytes, decoded |-> DeErr("")]]
    /\ UNCHANGED <<diskVars, up, data, dirty, wal, threadVars, flushVars, walLog, applied,
                   nOps, nFaults, crashVars, recoverVars, authVars, compacted, scanFile,
                   needs, cycle, tr, cfg>>

\* deserialize_entry(bytes) on what serialize_entry returned
Decode ==
    /\ last.n = 1 /\ last.call.op = "serialize_entry" /\ last.err = ""
    /\ last' = [last EXCEPT !.n = 2, !.out.decoded = deserialize_entry(last.out.bytes)]
    /\ UNCHANGED <<diskVars, up, data, dirty, wal, threadVars, flushVars, walLog, applied,
                   nOps, nFaults, crashVars, recoverVars, authVars, compacted, scanFile,
                   needs, cycle, tr, cfg>>

NextCodec ==
    \/ \E key \in CodecKeys, value \in CodecValues, op \in {OpPut, OpDelete} :
          Encode(key, value, op)
    \/ Decode

SpecCodec == Init /\ [][NextCodec]_vars

(***************************************************************************)
(* SpecPrefix: one caller fills the index with keys that share prefixes,   *)
(* then prefix_scan and prefix_count are called.                           *)
(***************************************************************************)
MaxPrefixCalls == 4

\* k.starts_with(prefix)
starts_with(k, prefix) == Len(prefix) <= Len(k) /\ SubSeq(k, 1, Len(prefix)) = prefix

\* k[prefix.len()..].to_vec()
strip_prefix(k, prefix) == SubSeq(k, Len(prefix) + 1, Len(k))

\* a.cmp(b) on byte slices is Less: the first differing byte decides, and
\* of two slices that agree up to the shorter one's end the shorter is less
RECURSIVE slice_lt(_, _)
slice_lt(a, b) ==
    IF b = <<>> THEN FALSE
    ELSE IF a = <<>> THEN TRUE
    ELSE IF Head(a) # Head(b) THEN Head(a) < Head(b)
    ELSE slice_lt(Tail(a), Tail(b))

\* One element put into a sorted Vec behind the elements not greater than it
RECURSIVE sort_insert(_, _)
sort_insert(sorted, pair) ==
    IF sorted = <<>> THEN <<pair>>
    ELSE IF slice_lt(pair[1], Head(sorted)[1]) THEN <<pair>> \o sorted
    ELSE <<Head(sorted)>> \o sort_insert(Tail(sorted), pair)

\* (mutant) results left in the order the map was iterated in
sort_by_none(results) == results

\* results.sort_by(|(a, _), (b, _)| a.cmp(b)), a stable sort
RECURSIVE sort_by(_)
sort_by(results) ==
    IF results = <<>> THEN <<>>
    ELSE sort_insert(sort_by(SubSeq(results, 1, Len(results) - 1)), results[Len(results)])

\* data.iter().filter(..).map(..).collect(), the map iterated in `order`
RECURSIVE prefix_collect(_, _, _)
prefix_collect(idx, order, prefix) ==
    IF order = <<>> THEN <<>>
    ELSE LET k == Head(order)
             rest == prefix_collect(idx, Tail(order), prefix)
         IN  IF starts_with(k, prefix)
             THEN <<(<<strip_prefix(k, prefix), idx[k]>>)>> \o rest
             ELSE rest

\* ClawStoreEngine::prefix_scan
prefix_scan(idx, order, prefix) == sort_by(prefix_collect(idx, order, prefix))

\* ClawStoreEngine::prefix_count
prefix_count(idx, prefix) == Cardinality({k \in DOMAIN idx : starts_with(k, prefix)})

K11 == <<1, 1>>
K12 == <<1, 2>>
K110 == <<1, 1, 0>>
K21 == <<2, 1>>

\* The calls that fill the index: five keys of which four start with byte 1,
\* one of them the bare prefix; a second value and a delete
PrefixCalls ==
    [op : {"put"}, key : {K1, K11, K12, K110, K21}, value : {V1}]
      \cup {[op |-> "put", key |-> K11, value |-> V2],
            [op |-> "delete", key |-> K11, value |-> <<>>]}

\* The prefixes asked for: the empty one, ones that match several keys, one
\* that matches none, one longer than every key
Prefixes == {<<>>, K1, K11, K2, K3, <<1, 1, 0, 0>>}

\* Every order in which a map over some of the keys can be iterated
PrefixOrders == UNION {Orders(S) : S \in SUBSET {c.key : c \in PrefixCalls}}

\* put or delete from entry to return, as in SpecSize
PrefixCall(c) ==
    /\ up /\ last.n = 0 /\ nOps < MaxPrefixCalls
    /\ \E r \in {WalAppend(c, "none", 0)} :
          /\ r.ok
          /\ walDir' = r.dir
          /\ walSynced' = r.synced
          /\ wal' = r.w
          /\ walLog' = Append(walLog, Entry(c.key, c.value, OpOf(c)))
    /\ data' = IndexUpdate(data, c)
    /\ dirty' = mark_dirty(dirty, c.key)
    /\ nOps' = nOps + 1
    /\ UNCHANGED <<dataDir, up, threadVars, flushVars, applied, nFaults, crashVars,
                   recoverVars, authVars, compacted, scanFile, needs, cycle, tr, obsVars>>

\* prefix_scan(prefix) and prefix_count(prefix) on the same index, the map
\* iterating its keys in `order`
PrefixScan(prefix, order) ==
    /\ up /\ last.n = 0
    /\ {order[i] : i \in DOMAIN order} = DOMAIN data
    /\ last' = [LastCall([op |-> "prefix_scan", key |-> prefix, value |-> <<>>], "")
                  EXCEPT !.out = [pairs |-> prefix_scan(data, order, prefix),
                                  count |-> prefix_count(data, prefix)]]
    /\ UNCHANGED <<diskVars, up, data, dirty, wal, threadVars, flushVars, walLog, applied,
                   nOps, nFaults, crashVars, recoverVars, authVars, compacted, scanFile,
                   needs, cycle, tr, cfg>>

NextPrefix ==
    \/ \E c \in PrefixCalls : PrefixCall(c)
    \/ \E prefix \in Prefixes, order \in PrefixOrders : PrefixScan(prefix, order)

SpecPrefix == Init /\ [][NextPrefix]_vars

(***************************************************************************)
(* clawstore-reth: table_ids.rs and tx.rs. A table is a prefix byte in     *)
(* front of the encoded key; transactions call the engine directly.        *)
(***************************************************************************)
\* The known arms of the match in table_id_for_name
KnownTableIds ==
    [CanonicalHeaders |-> 1, HeaderNumbers |-> 2, Headers |-> 3, BlockBodyIndices |-> 4,
     BlockOmmers |-> 5, BlockWithdrawals |-> 6, Transactions |-> 7,
     TransactionHashNumbers |-> 8, TransactionBlocks |-> 9, TransactionSenders |-> 10,
     Receipts |-> 11, PlainAccountState |-> 12, PlainStorageState |-> 13, Bytecodes |-> 14,
     AccountsTrie |-> 15, StoragesTrie |-> 16, HashedAccounts |-> 17, HashedStorages |-> 18,
     AccountsHistory |-> 19, StoragesHistory |-> 20, AccountChangeSets |-> 21,
     StorageChangeSets |-> 22, StageCheckpoints |-> 23, StageCheckpointProgresses |-> 24,
     PruneCheckpoints |-> 25, VersionHistory |-> 26, ChainState |-> 27, Metadata |-> 28]

\* (mutant) every table gets the prefix byte of CanonicalHeaders
table_id_one(name) == 1

\* table_id_for_name(name) for a known table
table_id_for_name(name) == KnownTableIds[name]

\* prefixed.push(table_id); prefixed.extend_from_slice(key)
prefixed_key(table, key) == <<table_id_for_name(table)>> \o key

\* ClawStoreEngine::get on the index: Some(value) or None
engine_get(idx, key) ==
    IF key \in DOMAIN idx THEN [some |-> TRUE, value |-> idx[key]]
    ELSE [some |-> FALSE, value |-> <<>>]

\* DbTx::get of ClawReadTx and ClawWriteTx (values are kept compressed)
tx_get(idx, table, key) == engine_get(idx, prefixed_key(table, key))

\* DbTx::entries
tx_entries(idx, table) == prefix_count(idx, <<table_id_for_name(table)>>)

(***************************************************************************)
(* SpecTx: write transactions of the adapter on one engine, one at a time; *)
(* power can be lost between two calls and the root be opened again.       *)
(***************************************************************************)
MaxTxs == 2

MaxTxWrites == 2

TxTables == {"CanonicalHeaders", "HeaderNumbers"}

\* A transaction just created by tx_mut(): its state, the engine calls it
\* has made, the file lengths reached by them, the session it belongs to
NewTx == [state |-> "open", writes |-> <<>>, ends |-> {}, opens |-> session.opens]

TxOpen == up /\ last.n > 0 /\ last.out.state = "open" /\ last.out.opens = session.opens

\* ClawDatabase::tx_mut
TxBegin ==
    /\ up /\ last.n < MaxTxs /\ ~TxOpen
    /\ last' = [LastCall([op |-> "tx_mut", key |-> <<>>, value |-> <<>>], "")
                  EXCEPT !.out = NewTx]
    /\ UNCHANGED <<diskVars, up, data, dirty, wal, threadVars, flushVars, walLog, applied,
                   nOps, nFaults, crashVars, recoverVars, authVars, compacted, scanFile,
                   needs, cycle, tr, cfg>>

\* What a call of the transaction that reached the engine does there
TxEngineCall(c) ==
    \E r \in {WalAppend(c, "none", 0)} :
        /\ r.ok
        /\ walDir' = r.dir
        /\ walSynced' = r.synced
        /\ wal' = r.w
        /\ walLog' = Append(walLog, Entry(c.key, c.value, OpOf(c)))
        /\ data' = IndexUpdate(data, c)
        /\ dirty' = mark_dirty(dirty, c.key)
        /\ last' = [last EXCEPT !.call = c,
                                !.out.writes = Append(@, c),
                                !.out.ends = @ \cup {<<r.w.file, Len(r.dir[r.w.file])>>}]

\* DbTxMut::put: engine.put_fast on the prefixed key
TxPut(table, key, value) ==
    /\ TxOpen /\ Len(last.out.writes) < MaxTxWrites
    /\ TxEngineCall([op |-> "put_fast", key |-> prefixed_key(table, key), value |-> value])
    /\ UNCHANGED <<dataDir, up, threadVars, flushVars, applied, nOps, nFaults, crashVars,
                   recoverVars, authVars, compacted, scanFile, needs, cycle, tr, cfg>>

\* DbTxMut::delete: engine.delete on the prefixed key when the key is there
TxDelete(table, key) ==
    /\ TxOpen /\ Len(last.out.writes) < MaxTxWrites
    /\ prefixed_key(table, key) \in DOMAIN data
    /\ TxEngineCall([op |-> "delete", key |-> prefixed_key(table, key), value |-> <<>>])
    /\ UNCHANGED <<dataDir, up, threadVars, flushVars, applied, nOps, nFaults, crashVars,
                   recoverVars, authVars, compacted, scanFile, needs, cycle, tr, cfg>>

\* DbTx::commit (how = "committed") and abort (how = "aborted") of
\* ClawWriteTx: both call engine.sync_wal
TxEnd(how) ==
    /\ TxOpen
    /\ walSynced' = sync(wal, walDir, walSynced, "none").synced
    /\ last' = [last EXCEPT !.call = [op |-> how, key |-> <<>>, value |-> <<>>],
                            !.out.state = how]
    /\ UNCHANGED <<walDir, dataDir, up, data, dirty, wal, threadVars, flushVars, walLog,
                   applied, nOps, nFaults, crashVars, recoverVars, authVars, compacted,
                   scanFile, needs, cycle, tr, cfg>>

\* The lengths a file can have after power loss: the synced length, the
\* whole file, or the end of a record of the transaction in between
TxCrashLengths(q) ==
    {walSynced[q], Len(walDir[q])}
      \cup {e[2] : e \in {x \in (IF last.n = 0 THEN {} ELSE last.out.ends) :
                              x[1] = q /\ x[2] > walSynced[q]}}

\* The outcomes of a power loss: a surviving length for every file
TxCrashKeeps ==
    {keep \in [DOMAIN walDir -> UNION {TxCrashLengths(q) : q \in DOMAIN walDir}] :
        \A q \in DOMAIN walDir : keep[q] \in TxCrashLengths(q)}

\* Power is lost between two calls
TxCrash(keep) ==
    /\ last.n > 0 /\ last.out.opens = session.opens
    /\ Crash(keep)

NextTx ==
    \/ TxBegin
    \/ \E table \in TxTables, key \in Keys, value \in {V1} : TxPut(table, key, value)
    \/ \E table \in TxTables, key \in Keys : TxDelete(table, key)
    \/ \E how \in {"committed", "aborted"} : TxEnd(how)
    \/ \E keep \in TxCrashKeeps : TxCrash(keep)
    \/ OpenEngine

SpecTx == Init /\ [][NextTx]_vars

(***************************************************************************)
(* SpecMirror: two caller threads and the trickle worker, no I/O fault.    *)
(* The worker is never held back: it sleeps, wakes and runs a cycle again  *)
(* and again (only its cycles on an empty dirty set are counted out).      *)
(***************************************************************************)
\* The calls of SpecMirror: two values and a delete on one key, another key
MirrorCalls ==
    {[op |-> "put", key |-> K1, value |-> V1],
     [op |-> "put_fast", key |-> K1, value |-> V2],
     [op |-> "delete", key |-> K1, value |-> <<>>],
     [op |-> "put", key |-> K2, value |-> V1]}

\* let dirty_keys = tracker.take_dirty(); an empty set ends the cycle at once
MirrorTake ==
    /\ up /\ fl.pc = "sleep"
    /\ dirty # {} \/ stats.total_cycles < MaxCycles
    /\ dirty' = {}
    /\ IF dirty = {}
       THEN /\ stats' = record_cycle(stats, 0)
            /\ fl' = fl
       ELSE /\ stats' = stats
            /\ fl' = [pc |-> "snapshot", keys |-> dirty, to_flush |-> {}, flushed |-> 0]
    /\ UNCHANGED <<auxVars, diskVars, up, data, wal, threadVars, dw, walLog, applied, nOps, nFaults>>

\* One iteration of `for (key, value) in to_flush` whose write returns Ok.
\* The bytes of the data file are left out here (write_entry and
\* write_tombstone are followed in SpecFlush and SpecData): the record
\* written is kept in the history cycle.after
MirrorWrite(item) ==
    /\ fl.pc = "write" /\ item \in fl.to_flush
    /\ cycle' = [cycle EXCEPT !.after =
                    Append(@, [key |-> item.key, value |-> item.value,
                               is_tombstone |-> ~item.present])]
    /\ fl' = [fl EXCEPT !.to_flush = @ \ {item}, !.flushed = @ + 1]
    /\ UNCHANGED <<diskVars, dw, up, data, dirty, wal, threadVars, stats, walLog, applied,
                   nOps, nFaults, crashVars, recoverVars, authVars, compacted, scanFile, needs,
                   tr, obsVars>>

\* The steps of the trickle thread
MirrorWorker ==
    \/ MirrorTake
    \/ FlushSnapshot
    \/ \E item \in fl.to_flush : MirrorWrite(item)
    \/ FlushRecord

NextMirror ==
    \/ \E t \in Threads, c \in MirrorCalls : Call(t, c)
    \/ \E t \in Threads : WalStep(t, "none", 0)
    \/ \E t \in Threads : IndexStep(t)
    \/ \E t \in Threads : MarkStep(t)
    \/ MirrorWorker

SpecMirror == Init /\ [][NextMirror]_vars

\* The trickle thread is scheduled
SpecMirrorFair == SpecMirror /\ WF_vars(MirrorWorker)

(***************************************************************************)
(* SpecTracker: threads calling mark_dirty, take_dirty and dirty_count on  *)
(* one DirtyTracker.  Each call locks dirty_keys on entry and holds the    *)
(* guard to its return.                                                    *)
(***************************************************************************)
MaxTrackerCalls == 5

\* (mutant) a drain that empties the set and hands back nothing
take_dirty_dropping(set) == [returned |-> {}, left |-> {}]

\* DirtyTracker::take_dirty: std::mem::take(&mut *dirty)
take_dirty(set) == [returned |-> set, left |-> {}]

\* DirtyTracker::dirty_count: dirty.len()
dirty_count(set) == Cardinality(set)

TrackerCalls ==
    {[op |-> "mark_dirty", key |-> k, value |-> <<>>] : k \in {K1, K2, K3}}
      \cup {[op |-> "take_dirty", key |-> <<>>, value |-> <<>>],
            [op |-> "dirty_count", key |-> <<>>, value |-> <<>>]}

\* History of the tracker: every key marked, every key a take returned, the
\* keys marked since the last take, and what the last take and the last
\* count returned
NoTracker ==
    [marked |-> {}, taken |-> {}, since |-> {}, returned |-> {}, count |-> 0]

TrackerOut == IF last.n = 0 THEN NoTracker ELSE last.out

\* let mut dirty = self.dirty_keys.lock(): the thread waits while another
\* thread holds the guard
TrackerLock(t, c) ==
    /\ pc[t] = "idle" /\ last.n < MaxTrackerCalls
    /\ \A u \in Threads : pc[u] # "locked"
    /\ pc' = [pc EXCEPT ![t] = "locked"]
    /\ call' = [call EXCEPT ![t] = c]
    /\ UNCHANGED <<diskVars, up, data, dirty, wal, res, walOk, touched, flushVars, walLog,
                   applied, nOps, nFaults, auxVars>>

\* The body of the call under the guard, and the drop of the guard at return
TrackerBody(t) ==
    /\ pc[t] = "locked"
    /\ pc' = [pc EXCEPT ![t] = "idle"]
    /\ \E h \in {TrackerOut}, c \in {call[t]} :
          CASE c.op = "mark_dirty" ->
                 /\ dirty' = mark_dirty(dirty, c.key)
                 /\ last' = [LastCall(c, "") EXCEPT
                                !.out = [h EXCEPT !.marked = @ \cup {c.key},
                                                  !.since = @ \cup {c.key}]]
            [] c.op = "take_dirty" ->
                 \E r \in {take_dirty(dirty)} :
                    /\ dirty' = r.left
                    /\ last' = [LastCall(c, "") EXCEPT
                                   !.out = [h EXCEPT !.taken = @ \cup r.returned,
                                                     !.since = {},
                                                     !.returned = r.returned]]
            [] OTHER ->
                 /\ dirty' = dirty
                 /\ last' = [LastCall(c, "") EXCEPT
                                !.out = [h EXCEPT !.count = dirty_count(dirty)]]
    /\ UNCHANGED <<diskVars, up, data, wal, call, res, walOk, touched, flushVars, walLog,
                   applied, nOps, nFaults, crashVars, recoverVars, authVars, compacted,
                   scanFile, needs, cycle, tr, cfg>>

NextTracker ==
    \/ \E t \in Threads, c \in TrackerCalls : TrackerLock(t, c)
    \/ \E t \in Threads : TrackerBody(t)

SpecTracker == Init /\ [][NextTracker]_vars

(***************************************************************************)
(* SpecStart: start_trickle and stop_trickle called one after the other on *)
(* one engine, and the trickle threads they spawn and join.  No key is     *)
(* dirty: every flush_dirty finds the set empty and records its cycle.     *)
(***************************************************************************)
MaxStartCalls == 4

\* A cycle more than every worker's final flush may run
MaxStartCycles == MaxStartCalls + 1

\* The engine's trickle slot (0 for None, else the thread of the handle),
\* the caller's position and the thread it holds a handle of, the threads
\* whose shutdown flag is set, and every thread's position
NoStart ==
    [slot |-> 0, caller |-> "idle", handle |-> 0, flags |-> {},
     worker |-> [i \in 1..MaxStartCalls |-> "none"]]

StartOut == IF last.n = 0 THEN NoStart ELSE last.out

StartUnchanged ==
    UNCHANGED <<diskVars, up, data, wal, threadVars, fl, dw, walLog, applied, nOps, nFaults,
                crashVars, recoverVars, authVars, compacted, scanFile, needs, cycle, tr, cfg>>

\* start_trickle(...)?: the thread is spawned and runs trickle_loop before
\* the caller locks self.trickle
StartSpawn ==
    /\ up /\ last.n < MaxStartCalls
    /\ \E h \in {StartOut} :
          /\ h.caller = "idle"
          /\ last' = [LastCall([NoCall EXCEPT !.op = "start_trickle"], "") EXCEPT
                         !.out = [h EXCEPT !.caller = "store", !.handle = last.n + 1,
                                           !.worker[last.n + 1] = "sleep"]]
    /\ UNCHANGED <<dirty, stats>>
    /\ StartUnchanged

\* *trickle = Some(handle): the handle that was in the slot is dropped, and
\* its drop sets the flag of its thread and joins it
StartStore ==
    /\ last.n > 0 /\ last.out.caller = "store"
    /\ \E h \in {last.out} :
          last' = [last EXCEPT
                     !.out = IF h.slot = 0
                             THEN [h EXCEPT !.slot = h.handle, !.caller = "idle", !.handle = 0]
                             ELSE [h EXCEPT !.slot = h.handle, !.caller = "join",
                                            !.handle = h.slot, !.flags = @ \cup {h.slot}]]
    /\ UNCHANGED <<dirty, stats>>
    /\ StartUnchanged

\* stop_trickle: trickle.take() and, for a handle, shutdown() up to the join
StopTake ==
    /\ up /\ last.n < MaxStartCalls
    /\ \E h \in {StartOut} :
          /\ h.caller = "idle"
          /\ last' = [LastCall([NoCall EXCEPT !.op = "stop_trickle"], "") EXCEPT
                         !.out = IF h.slot = 0 THEN h
                                 ELSE [h EXCEPT !.slot = 0, !.caller = "join",
                                                !.handle = h.slot,
                                                !.flags = @ \cup {h.slot}]]
    /\ UNCHANGED <<dirty, stats>>
    /\ StartUnchanged

\* handle.join() returns once the thread has ended
StartJoin ==
    /\ last.n > 0 /\ last.out.caller = "join"
    /\ last.out.worker[last.out.handle] = "ended"
    /\ last' = [last EXCEPT !.out = [@ EXCEPT !.caller = "idle", !.handle = 0]]
    /\ UNCHANGED <<dirty, stats>>
    /\ StartUnchanged

\* trickle_loop of thread i: the flag is seen set (final flush), or the
\* cadence has passed; the thread enters flush_dirty
StartWake(i) ==
    /\ last.n > 0 /\ last.out.worker[i] = "sleep"
    /\ i \notin last.out.flags => stats.total_cycles < MaxStartCycles - MaxStartCalls
    /\ last' = [last EXCEPT
                   !.out = [@ EXCEPT !.worker[i] =
                               IF i \in last.out.flags THEN "final" ELSE "flush"]]
    /\ UNCHANGED <<dirty, stats>>
    /\ StartUnchanged

\* flush_dirty of thread i to its end; after the final flush the thread
\* returns
StartFlush(i) ==
    /\ last.n > 0 /\ last.out.worker[i] \in {"flush", "final"}
    /\ \E r \in {take_dirty(dirty)} :
          /\ dirty' = r.left
          /\ stats' = record_cycle(stats, dirty_count(r.returned))
    /\ last' = [last EXCEPT
                   !.out = [@ EXCEPT !.worker[i] =
                               IF last.out.worker[i] = "final" THEN "ended" ELSE "sleep"]]
    /\ StartUnchanged

NextStart ==
    \/ StartSpawn
    \/ StartStore
    \/ StopTake
    \/ StartJoin
    \/ \E i \in 1..MaxStartCalls : StartWake(i)
    \/ \E i \in 1..MaxStartCalls : StartFlush(i)

SpecStart == Init /\ [][NextStart]_vars

(***************************************************************************)
(* SpecLocks: the lock scopes of the engine's calls and of the trickle     *)
(* thread.  A program is the sequence of lock, unlock and blocking steps a *)
(* function makes; what the function does to the data between them is      *)
(* followed in Spec and is left out here.                                  *)
(***************************************************************************)
MaxLockCalls == 3

\* The trickle thread, by the name it is spawned with
TrickleThread == "clawstore-trickle"

LockThreads == Threads \cup {TrickleThread}

\* self.wal, self.data (held shared or exclusive), the tracker's dirty_keys,
\* self.trickle
WalMutex == "wal"

IndexRead == "index_read"

IndexWrite == "index_write"

DirtyMutex == "dirty"

TrickleMutex == "trickle"

Scope(lock) == << <<"lock", lock>>, <<"unlock", lock>> >>

\* (mutant) put with the WAL guard kept to the end of the function
put_steps_nested(wal_ok) ==
    << <<"lock", WalMutex>> >> \o Scope(IndexWrite) \o Scope(DirtyMutex)
       \o << <<"unlock", WalMutex>> >>

\* put, put_fast, delete: the block of the WAL append, whose error returns
\* with `?`, the block of the index write, mark_dirty
put_steps(wal_ok) ==
    IF wal_ok THEN Scope(WalMutex) \o Scope(IndexWrite) \o Scope(DirtyMutex)
    ELSE Scope(WalMutex)

\* sync_wal
sync_wal_steps == Scope(WalMutex)

\* get, prefix_scan
read_steps == Scope(IndexRead)

\* stop_trickle: the slot is locked to the return; a handle taken from it is
\* shut down (flag set, thread joined)
stop_trickle_steps(handle) ==
    IF handle
    THEN << <<"lock", TrickleMutex>>, <<"shutdown", "">>, <<"join", "">>,
            <<"unlock", TrickleMutex>> >>
    ELSE Scope(TrickleMutex)

\* flush_dirty: take_dirty; for keys taken, the snapshot under the read
\* lock and the writes with no lock held; mark_dirty after a failed write
flush_dirty_steps(taken, failed) ==
    IF ~taken THEN Scope(DirtyMutex)
    ELSE Scope(DirtyMutex) \o Scope(IndexRead) \o << <<"io", "">> >>
           \o (IF failed THEN Scope(DirtyMutex) \o << <<"io", "">> >> ELSE <<>>)

\* The locks every thread holds and the steps it has left, the shutdown
\* flag, whether the slot holds the handle, and the trickle thread's end
NoLocks ==
    [hold |-> [t \in LockThreads |-> {}], steps |-> [t \in LockThreads |-> <<>>],
     shutdown |-> FALSE, handle |-> TRUE, final |-> FALSE, ended |-> FALSE]

LocksOut == IF last.n = 0 THEN NoLocks ELSE last.out

LockPrograms(h) ==
    {put_steps(ok) : ok \in BOOLEAN} \cup {sync_wal_steps, read_steps,
                                           stop_trickle_steps(h.handle)}

\* A lock can be taken: a mutex when no thread holds it, the index shared
\* when no thread holds it exclusive (and, if `fair`, none waits to), the
\* index exclusive when no thread holds it at all
Free(h, lock, fair) ==
    CASE lock = IndexRead ->
           /\ \A u \in LockThreads : IndexWrite \notin h.hold[u]
           /\ fair => \A u \in LockThreads :
                         h.steps[u] = <<>> \/ h.steps[u][1] # <<"lock", IndexWrite>>
      [] lock = IndexWrite ->
           \A u \in LockThreads : h.hold[u] \cap {IndexRead, IndexWrite} = {}
      [] OTHER -> \A u \in LockThreads : lock \notin h.hold[u]

\* The next step of thread t does not wait
CanStep(h, t, fair) ==
    /\ h.steps[t] # <<>>
    /\ h.steps[t][1][1] = "lock" => Free(h, h.steps[t][1][2], fair)
    /\ h.steps[t][1][1] = "join" => h.ended

\* The threads the next step of thread t waits for
WaitsFor(h, t) ==
    LET step == h.steps[t][1]
    IN  CASE step[1] = "join" -> {TrickleThread}
          [] step = <<"lock", IndexRead>> ->
               {u \in LockThreads :
                   \/ IndexWrite \in h.hold[u]
                   \/ h.steps[u] # <<>> /\ h.steps[u][1] = <<"lock", IndexWrite>>}
          [] step = <<"lock", IndexWrite>> ->
               {u \in LockThreads : h.hold[u] \cap {IndexRead, IndexWrite} # {}}
          [] step[1] = "lock" -> {u \in LockThreads : step[2] \in h.hold[u]}
          [] OTHER -> {}

\* Every thread of S waits, and waits for a thread of S
Deadlocked(h, S) ==
    /\ S # {}
    /\ \A t \in S : /\ h.steps[t] # <<>>
                     /\ ~CanStep(h, t, TRUE)
                     /\ WaitsFor(h, t) \cap S # {}

LockUnchanged ==
    UNCHANGED <<diskVars, up, data, dirty, wal, threadVars, flushVars, walLog, applied, nOps,
                nFaults, crashVars, recoverVars, authVars, compacted, scanFile, needs, cycle,
                tr, cfg>>

\* A caller thread enters put, put_fast, delete, sync_wal, get, prefix_scan
\* or stop_trickle
LockCall(t, program) ==
    /\ last.n < MaxLockCalls
    /\ \E h \in {LocksOut} :
          /\ h.steps[t] = <<>> /\ program \in LockPrograms(h)
          /\ last' = [LastCall(NoCall, "") EXCEPT
                         !.out = [h EXCEPT !.steps[t] = program,
                                           !.handle = @ /\ program # stop_trickle_steps(TRUE)]]
    /\ LockUnchanged

\* trickle_loop: the thread wakes and enters flush_dirty, for the last
\* time once it has seen the flag
LockCycle(taken, failed) ==
    /\ last.n > 0
    /\ \E h \in {last.out} :
          /\ h.steps[TrickleThread] = <<>> /\ ~h.final
          /\ last' = [last EXCEPT
                         !.out = [h EXCEPT !.steps[TrickleThread] =
                                               flush_dirty_steps(taken, failed),
                                           !.final = h.shutdown]]
    /\ LockUnchanged

\* One step of a thread: a lock taken once it is free, a lock released, the
\* flag set, a join returning once the trickle thread has ended, I/O done
LockStep(t) ==
    /\ last.n > 0
    /\ \E h \in {last.out} :
          /\ CanStep(h, t, FALSE)
          /\ \E step \in {h.steps[t][1]}, rest \in {Tail(h.steps[t])} :
                last' = [last EXCEPT
                           !.out = [h EXCEPT
                                      !.steps[t] = rest,
                                      !.hold[t] = CASE step[1] = "lock" -> @ \cup {step[2]}
                                                    [] step[1] = "unlock" -> @ \ {step[2]}
                                                    [] OTHER -> @,
                                      !.shutdown = @ \/ step[1] = "shutdown",
                                      !.ended = @ \/ (t = TrickleThread /\ h.final
                                                        /\ rest = <<>>)]]
    /\ LockUnchanged

NextLocks ==
    \/ \E t \in Threads, program \in LockPrograms(NoLocks) : LockCall(t, program)
    \/ \E taken, failed \in BOOLEAN : LockCycle(taken, failed)
    \/ \E t \in LockThreads : LockStep(t)

SpecLocks == Init /\ [][NextLocks]_vars

(***************************************************************************)
(* SpecScan: a data file is built record by record, some records damaged   *)
(* or cut short, and DataFileReader::scan_all reads it.                    *)
(***************************************************************************)
MaxScanWrites == 3

\* What has become of a record by the time of the scan: intact; a byte of
\* its payload changed; its magic changed; its key_len above the cap; the
\* write cut after the header or after the magic
ScanDamages == {"none", "payload", "magic", "over", "torn_header", "torn_magic"}

\* The bytes of a record under a damage
DamagedRecord(item, how) ==
    LET whole == data_record(item.key, item.value, ~item.present)
    IN  CASE how = "payload" -> [whole EXCEPT ![Len(whole)] = (@ + 1) % 256]
          [] how = "magic" -> [whole EXCEPT ![1] = 0]
          [] how = "over" -> [whole EXCEPT ![5] = MAX_KEY_SIZE + 1]
          [] how = "torn_header" -> Prefix(whole, DATA_HEADER_SIZE)
          [] how = "torn_magic" -> Prefix(whole, 4)
          [] OTHER -> whole

\* The records of the file with what became of them, and the scan's result
NoScan == [layout |-> <<>>, done |-> FALSE, result |-> <<>>]

ScanOut == IF last.n = 0 THEN NoScan ELSE last.out

ScanUnchanged ==
    UNCHANGED <<diskVars, up, data, dirty, wal, threadVars, flushVars, walLog, applied, nOps,
                nFaults, crashVars, recoverVars, authVars, compacted, needs, cycle, tr, cfg>>

\* write_entry or write_tombstone appends the record to the file
ScanWrite(item, how) ==
    /\ last.n < MaxScanWrites
    /\ \E h \in {ScanOut} :
          /\ ~h.done
          /\ scanFile' = scanFile \o DamagedRecord(item, how)
          /\ last' = [LastCall(NoCall, "") EXCEPT
                         !.out = [h EXCEPT !.layout =
                                     Append(@, [key |-> item.key,
                                                value |-> IF item.present THEN item.value
                                                          ELSE <<>>,
                                                offset |-> Len(scanFile),
                                                is_tombstone |-> ~item.present,
                                                how |-> how])]]
    /\ ScanUnchanged

\* DataFileReader::scan_all(file)
ScanAll ==
    /\ last.n > 0 /\ ~last.out.done
    /\ last' = [last EXCEPT !.out = [@ EXCEPT !.done = TRUE, !.result = scan_all(scanFile)]]
    /\ UNCHANGED scanFile
    /\ ScanUnchanged

NextScan ==
    \/ \E item \in WriteItems, how \in ScanDamages : ScanWrite(item, how)
    \/ ScanAll

SpecScan == Init /\ [][NextScan]_vars

(***************************************************************************)
(* SpecLive: compact_file runs on the file the DataFileWriter of the       *)
(* trickle thread is appending to.  compact_file reads the file, then      *)
(* writes the temp file and renames it over the path; the writes of the    *)
(* other thread fall before, between or (not followed here) behind the two.*)
(***************************************************************************)
MaxLiveWrites == 3

\* The compaction under way: its position, the file, what scan_all returned
\* to it, and the records written Ok to that file since
NoLive == [at |-> "idle", file |-> 0, all_entries |-> <<>>, during |-> <<>>]

LiveOut == IF last.n = 0 THEN NoLive ELSE last.out

LiveUnchanged ==
    UNCHANGED <<walDir, walSynced, up, data, dirty, wal, threadVars, fl, stats, walLog, applied,
                nOps, nFaults, crashVars, recoverVars, authVars, compacted, scanFile, needs,
                cycle, tr, cfg>>

\* write_entry or write_tombstone of the trickle thread returns Ok
LiveWrite(item) ==
    /\ up
    /\ \E h \in {LiveOut}, r \in {FlushWriteOne(item, "none", 0)} :
          /\ h.at # "done"
          /\ last.n < MaxLiveWrites
          /\ dataDir' = r.dir
          /\ dw' = r.w
          /\ last' = [LastCall(NoCall, "") EXCEPT
                         !.out = IF h.at = "scanned" /\ r.w.file = h.file
                                 THEN [h EXCEPT !.during =
                                          Append(@, [key |-> item.key, value |-> item.value,
                                                     is_tombstone |-> ~item.present])]
                                 ELSE h]
    /\ LiveUnchanged

\* compact_file(path of the writer's file) up to the end of its scan
LiveScan ==
    /\ up /\ last.n > 0 /\ last.out.at = "idle"
    /\ dw.file \in DOMAIN dataDir
    /\ last' = [last EXCEPT !.out = [@ EXCEPT !.at = "scanned", !.file = dw.file,
                                              !.all_entries = scan_all(dataDir[dw.file])]]
    /\ UNCHANGED <<dataDir, dw>>
    /\ LiveUnchanged

\* compact_file from the temp file to its return: the live entries of the
\* scan are written and the temp file is renamed over the path
LiveRename(order) ==
    /\ last.n > 0 /\ last.out.at = "scanned"
    /\ \E latest \in {LatestOf(last.out.all_entries, 1, <<>>)} :
          /\ order \in Orders(LiveKeys(latest))
          /\ dataDir' = [dataDir EXCEPT ![last.out.file] = compact_bytes(latest, order, 1)]
    /\ last' = [last EXCEPT !.out = [@ EXCEPT !.at = "done"]]
    /\ UNCHANGED dw
    /\ LiveUnchanged

NextLive ==
    \/ \E item \in WriteItems : LiveWrite(item)
    \/ LiveScan
    \/ \E order \in UNION {Orders(S) : S \in SUBSET Keys} : LiveRename(order)

SpecLive == Init /\ [][NextLive]_vars

(***************************************************************************)
(* SpecPhantom: a WAL file whose records have the sizes the source allows: *)
(* a value may hold the bytes of a whole record (40 bytes and more, far    *)
(* below the source's caps and rotation threshold, above the scaled ones   *)
(* of this module).  One record is damaged at rest, then recover_entries   *)
(* reads the directory.                                                    *)
(***************************************************************************)
\* The bytes of a record of its own: what an application may store as value
EmbeddedRecord == serialize_entry(K2, V1, OpPut).bytes

\* The records written: one whose value is those bytes, a delete, one whose
\* key is the four magic bytes
PhantomEntries ==
    {Entry(K1, EmbeddedRecord, OpPut), Entry(K2, <<>>, OpDelete), Entry(MAGIC_ARRAY, <<>>, OpPut)}

\* WalWriter::append_durable returning Ok for an entry within the source's
\* caps, on a file below the source's rotation threshold: the entry is
\* serialized, written and synced
WideAppend(e) ==
    /\ ~recovered.done /\ nOps < MaxItems
    /\ \E payload \in {EntryPayload(e.key, e.value, e.operation)} :
          \E bytes \in {ChunkHeader_to_bytes(Len(payload), crc32c(payload), e.operation)
                           \o payload} :
             /\ walDir' = [walDir EXCEPT ![wal.file] = @ \o bytes]
             /\ walSynced' = [walSynced EXCEPT ![wal.file] = Len(walDir[wal.file]) + Len(bytes)]
             /\ wal' = [wal EXCEPT !.size = @ + Len(bytes)]
             /\ layout' = [LayoutOn(walDir) EXCEPT
                              ![wal.file] = Append(@, Item("intact", e, Len(bytes)))]
    /\ nOps' = nOps + 1
    /\ UNCHANGED <<dataDir, up, data, dirty, threadVars, extVars, flushVars, walLog, applied, nFaults,
                   crashVars, recovered, authVars, compacted>>

NextPhantom ==
    \/ \E e \in PhantomEntries : WideAppend(e)
    \/ \E q \in 0..MaxItems, i \in 1..MaxItems : RecCorrupt(q, i, "crc")
    \/ Recover

SpecPhantom == Init /\ [][NextPhantom]_vars

(***************************************************************************)
(* SpecRotate: one caller fills the WAL past its rotation threshold, and   *)
(* an I/O fault can strike one of the calls.                               *)
(***************************************************************************)
MaxRotateCalls == 4

\* Records of 42, 48 and 41 bytes: two fit into a file, a third does not
RotateCalls ==
    {[op |-> "put", key |-> K1, value |-> V1],
     [op |-> "put_fast", key |-> KMax, value |-> V2],
     [op |-> "delete", key |-> K1, value |-> <<>>]}

\* ClawStoreEngine::put, put_fast or delete from entry to return, with an
\* I/O fault inside its WAL scope
RotateCall(c, fault, cut) ==
    /\ up /\ last.n < MaxRotateCalls
    /\ fault # "none" => nFaults < MaxFaults
    /\ WalFaultApplies(c, fault)
    /\ \E r \in {WalAppend(c, fault, cut)} :
          /\ walDir' = r.dir
          /\ walSynced' = r.synced
          /\ wal' = r.w
          /\ data' = IF r.ok THEN IndexUpdate(data, c) ELSE data
          /\ dirty' = IF r.ok THEN mark_dirty(dirty, c.key) ELSE dirty
          /\ walLog' = IF r.ok THEN Append(walLog, Entry(c.key, c.value, OpOf(c))) ELSE walLog
          /\ last' = [LastCall(c, r.err) EXCEPT !.out = walSynced]
    /\ nFaults' = IF fault = "none" THEN nFaults ELSE nFaults + 1
    /\ UNCHANGED <<dataDir, up, threadVars, flushVars, applied, nOps, crashVars,
                   recoverVars, authVars, compacted, scanFile, needs, cycle, tr, cfg>>

NextRotate == \E c \in RotateCalls, fc \in FaultCases(WalFaults) : RotateCall(c, fc[1], fc[2])

SpecRotate == Init /\ [][NextRotate]_vars

(***************************************************************************)
(* SpecOrder: one caller appends, the engine is dropped and opened again,  *)
(* and no byte of the WAL is lost or damaged. A failing durable_sync or    *)
(* rotate can make a call return an error.                                 *)
(***************************************************************************)
\* The faults that leave the WAL files made of whole records
OrderFaults == {"none", "rotate_sync", "rotate_open", "sync"}

\* ClawStoreEngine::put, put_fast or delete from entry to return; the
\* history last.out collects the records whose write_all returned Ok
OrderCall(c, fault) ==
    /\ up /\ nOps < MaxOps
    /\ fault # "none" => nFaults < MaxFaults
    /\ WalFaultApplies(c, fault)
    /\ \E r \in {WalAppend(c, fault, 0)} :
          /\ walDir' = r.dir
          /\ walSynced' = r.synced
          /\ wal' = r.w
          /\ data' = IF r.ok THEN IndexUpdate(data, c) ELSE data
          /\ dirty' = IF r.ok THEN mark_dirty(dirty, c.key) ELSE dirty
          /\ walLog' = IF r.ok THEN Append(walLog, Entry(c.key, c.value, OpOf(c))) ELSE walLog
          /\ last' = [LastCall(c, r.err) EXCEPT
                        !.out = IF r.ok \/ fault = "sync"
                                THEN Append(last.out, Entry(c.key, c.value, OpOf(c)))
                                ELSE last.out]
    /\ nOps' = nOps + 1
    /\ nFaults' = IF fault = "none" THEN nFaults ELSE nFaults + 1
    /\ UNCHANGED <<dataDir, up, threadVars, flushVars, applied, crashVars,
                   recoverVars, authVars, compacted, scanFile, needs, cycle, tr, cfg>>

NextOrder ==
    \/ \E c \in SeqCalls, fault \in OrderFaults : OrderCall(c, fault)
    \/ DropEngine
    \/ OpenEngine

SpecOrder == Init /\ [][NextOrder]_vars

(***************************************************************************)
(* clawstore-reth: cursor.rs. A cursor holds a BTreeMap snapshot of its    *)
(* table, here the sequence of its (key, value) pairs in key order, and a  *)
(* position, <<>> for None and <<key>> for Some(key).                      *)
(***************************************************************************)
NonePair == [some |-> FALSE, key |-> <<>>, value |-> <<>>]

SomePair(pair) == [some |-> TRUE, key |-> pair[1], value |-> pair[2]]

\* BTreeMap::insert: the pair takes the place of an equal key, or its place
\* in the order of the keys
RECURSIVE btree_insert(_, _)
btree_insert(map, pair) ==
    IF map = <<>> THEN <<pair>>
    ELSE IF Head(map)[1] = pair[1] THEN <<pair>> \o Tail(map)
    ELSE IF slice_lt(pair[1], Head(map)[1]) THEN <<pair>> \o map
    ELSE <<Head(map)>> \o btree_insert(Tail(map), pair)

\* .into_iter().collect() into a BTreeMap
RECURSIVE btree_collect(_)
btree_collect(pairs) ==
    IF pairs = <<>> THEN <<>>
    ELSE btree_insert(btree_collect(SubSeq(pairs, 1, Len(pairs) - 1)), pairs[Len(pairs)])

\* (mutant) the snapshot keeps the order of the engine's keys with their
\* prefix byte, highest first
snapshot_table_reversed(idx, order, table_id) ==
    LET sorted == prefix_scan(idx, order, <<table_id>>) IN
    [i \in 1..Len(sorted) |-> sorted[Len(sorted) + 1 - i]]

\* snapshot_table(engine, table_id)
snapshot_table(idx, order, table_id) == btree_collect(prefix_scan(idx, order, <<table_id>>))

\* ClawCursor::new
ClawCursor_new(idx, order, table) ==
    [data |-> snapshot_table(idx, order, table_id_for_name(table)), position |-> <<>>]

\* The result of a cursor call that found the pair at index i of the map
\* (0: found none): the position moves only when a pair was found
CursorAt(c, i) ==
    IF i = 0 THEN [c |-> c, result |-> NonePair]
    ELSE [c |-> [c EXCEPT !.position = <<c.data[i][1]>>], result |-> SomePair(c.data[i])]

\* The index of the first pair of the map that satisfies ok, 0 for none
FirstIndex(map, ok(_)) ==
    IF \E i \in DOMAIN map : ok(map[i][1])
    THEN CHOOSE i \in DOMAIN map : ok(map[i][1]) /\ \A j \in 1..(i - 1) : ~ok(map[j][1])
    ELSE 0

\* The index of the last pair of the map that satisfies ok, 0 for none
LastIndex(map, ok(_)) ==
    IF \E i \in DOMAIN map : ok(map[i][1])
    THEN CHOOSE i \in DOMAIN map : ok(map[i][1]) /\ \A j \in (i + 1)..Len(map) : ~ok(map[j][1])
    ELSE 0

\* DbCursorRO::first: self.data.iter().next()
cursor_first(c) == CursorAt(c, IF c.data = <<>> THEN 0 ELSE 1)

\* DbCursorRO::last: self.data.iter().next_back()
cursor_last(c) == CursorAt(c, Len(c.data))

\* DbCursorRO::seek_exact: self.data.get(&key_bytes)
cursor_seek_exact(c, key) == CursorAt(c, LET ok(k) == k = key IN FirstIndex(c.data, ok))

\* DbCursorRO::seek: self.data.range(key_bytes..).next()
cursor_seek(c, key) == CursorAt(c, LET ok(k) == ~slice_lt(k, key) IN FirstIndex(c.data, ok))

\* DbCursorRO::next: range((Excluded(pos), Unbounded)).next(), first() from None
cursor_next(c) ==
    IF c.position = <<>> THEN cursor_first(c)
    ELSE CursorAt(c, LET ok(k) == slice_lt(c.position[1], k) IN FirstIndex(c.data, ok))

\* DbCursorRO::prev: range(..pos).next_back(), last() from None
cursor_prev(c) ==
    IF c.position = <<>> THEN cursor_last(c)
    ELSE CursorAt(c, LET ok(k) == slice_lt(k, c.position[1]) IN LastIndex(c.data, ok))

\* DbCursorRO::current: self.data.get(&pos), the position stays
cursor_current(c) ==
    IF c.position = <<>> THEN [c |-> c, result |-> NonePair]
    ELSE [c |-> c,
          result |-> CursorAt(c, LET ok(k) == k = c.position[1] IN FirstIndex(c.data, ok)).result]

\* Whether a key lies at or below the end bound of a range (keys compare
\* as their encodings do)
WithinEnd(key, end) ==
    \/ end.kind = "Unbounded"
    \/ end.kind = "Included" /\ ~slice_lt(end.key, key)
    \/ end.kind = "Excluded" /\ slice_lt(key, end.key)

\* What a Walker or RangeWalker yields after `first`, its start item: the
\* start, then the results of cursor.next() until one is None or lies
\* beyond the end; `n` bounds the steps by the size of the map
RECURSIVE walker_items(_, _, _, _)
walker_items(c, first, end, n) ==
    IF ~first.some \/ ~WithinEnd(first.key, end) \/ n = 0 THEN [c |-> c, items |-> <<>>]
    ELSE LET step == cursor_next(c)
             rest == walker_items(step.c, step.result, end, n - 1)
         IN  [c |-> rest.c, items |-> <<first>> \o rest.items]

\* The start item of walk_range: seek for an Included bound; for an Excluded
\* one seek, then current() and, where that is the bound itself, next();
\* first() for Unbounded
walk_range_start(c, start) ==
    IF start.kind = "Included" THEN cursor_seek(c, start.key)
    ELSE IF start.kind = "Excluded"
    THEN LET s == cursor_seek(c, start.key)
             cur == cursor_current(s.c)
         IN  IF cur.result.some /\ cur.result.key = start.key THEN cursor_next(s.c)
             ELSE cur
    ELSE cursor_first(c)

\* DbCursorRO::walk_range(range), run to its end; walk(None) is the walk
\* of the range with both bounds Unbounded
cursor_walk_range(c, start, end) ==
    LET s == walk_range_start(c, start)
    IN  walker_items(s.c, s.result, end, Len(c.data) + 1)

(***************************************************************************)
(* SpecCursor: tables are filled through the engine, a cursor is created   *)
(* on one of them and moved about while the tables go on changing.         *)
(***************************************************************************)
MaxTableCalls == 3

\* Encoded keys put into CanonicalHeaders, one a prefix of another
CursorKeys == {<<1>>, <<1, 0>>, <<3>>}

\* Keys asked for: the stored ones, one below, one between and one above
SeekKeys == {<<0>>, <<1>>, <<1, 0>>, <<2>>, <<3>>, <<4>>}

\* tx.put::<T>(key, value) and tx.delete::<T>(key, None) as the engine call
\* they make, on the table's prefixed key
TablePut(table, key, value) ==
    [op |-> "put_fast", key |-> prefixed_key(table, key), value |-> value,
     table |-> table, tkey |-> key]

TableDelete(table, key) ==
    [op |-> "delete", key |-> prefixed_key(table, key), value |-> <<>>,
     table |-> table, tkey |-> key]

\* put on three keys of one table and on a key of another whose encoding
\* is that of one of the three, and a delete
TableCalls ==
    {TablePut("CanonicalHeaders", k, V1) : k \in CursorKeys}
      \cup {TablePut("HeaderNumbers", <<1>>, V2), TableDelete("CanonicalHeaders", <<1>>)}

\* DbTxMut::put or delete from entry to return: engine.put_fast, or
\* engine.delete where the key is there
TableCall(c) ==
    /\ up /\ nOps < MaxTableCalls
    /\ c.op = "delete" => c.key \in DOMAIN data
    /\ \E r \in {WalAppend(c, "none", 0)} :
          /\ r.ok
          /\ walDir' = r.dir
          /\ walSynced' = r.synced
          /\ wal' = r.w
          /\ walLog' = Append(walLog, Entry(c.key, c.value, OpOf(c)))
    /\ data' = IndexUpdate(data, c)
    /\ dirty' = mark_dirty(dirty, c.key)
    /\ nOps' = nOps + 1
    /\ UNCHANGED <<dataDir, up, threadVars, flushVars, applied, nFaults, crashVars,
                   recoverVars, authVars, compacted, scanFile, needs, cycle, tr, obsVars>>

Unbounded == [kind |-> "Unbounded", key |-> <<>>]

CursorUnchanged ==
    UNCHANGED <<diskVars, up, data, dirty, wal, threadVars, flushVars, walLog, applied,
                nOps, nFaults, crashVars, recoverVars, authVars, compacted, scanFile,
                needs, cycle, tr, cfg>>

\* tx.cursor_read::<T>(), the engine's map iterating in `order`
CursorNew(table, order) ==
    /\ up /\ last.n = 0
    /\ {order[i] : i \in DOMAIN order} = DOMAIN data
    /\ last' = [LastCall([op |-> "cursor_read", key |-> <<>>, value |-> <<>>], "")
                  EXCEPT !.out = [table |-> table, c |-> ClawCursor_new(data, order, table),
                                  before |-> <<>>, result |-> NonePair, items |-> <<>>,
                                  start |-> Unbounded, end |-> Unbounded]]
    /\ CursorUnchanged

\* What a call leaves in the history: the call, the position that next or
\* prev started from, the cursor and the pair it returned
CursorDone(op, key, r) ==
    last' = [last EXCEPT !.call = [op |-> op, key |-> key, value |-> <<>>],
                         !.out.before = IF op \in {"next", "prev"}
                                        THEN last.out.c.position ELSE <<>>,
                         !.out.c = r.c,
                         !.out.result = r.result,
                         !.out.items = <<>>,
                         !.out.start = Unbounded,
                         !.out.end = Unbounded]

\* first, last, next, prev or current on the cursor
CursorMove(op) ==
    /\ last.n = 1 /\ last.call.op # "serialize_entry"
    /\ CursorDone(op, <<>>,
                  CASE op = "first" -> cursor_first(last.out.c)
                    [] op = "last" -> cursor_last(last.out.c)
                    [] op = "next" -> cursor_next(last.out.c)
                    [] op = "prev" -> cursor_prev(last.out.c)
                    [] OTHER -> cursor_current(last.out.c))
    /\ CursorUnchanged

\* seek or seek_exact on the cursor
CursorSeek(op, key) ==
    /\ last.n = 1 /\ last.call.op # "serialize_entry"
    /\ CursorDone(op, key, IF op = "seek" THEN cursor_seek(last.out.c, key)
                                         ELSE cursor_seek_exact(last.out.c, key))
    /\ CursorUnchanged

\* walk_range(range), iterated to its end
CursorWalk(start, end) ==
    /\ last.n = 1 /\ last.call.op # "serialize_entry"
    /\ \E w \in {cursor_walk_range(last.out.c, start, end)} :
          last' = [last EXCEPT !.call = [op |-> "walk_range",
                                         key |-> <<>>, value |-> <<>>],
                               !.out.start = start,
                               !.out.before = <<>>,
                               !.out.c = w.c,
                               !.out.result = NonePair,
                               !.out.items = w.items,
                               !.out.end = end]
    /\ CursorUnchanged

\* Start bounds of the ranges walked: none, a stored key, missing ones
RangeStarts ==
    {Unbounded, [kind |-> "Included", key |-> <<1>>], [kind |-> "Included", key |-> <<2>>],
     [kind |-> "Excluded", key |-> <<1>>], [kind |-> "Excluded", key |-> <<4>>]}

\* End bounds of the ranges walked
RangeEnds ==
    {Unbounded, [kind |-> "Included", key |-> <<1, 0>>], [kind |-> "Excluded", key |-> <<3>>]}

NextCursor ==
    \/ \E c \in TableCalls : TableCall(c)
    \/ \E table \in TxTables, order \in UNION {Orders(S) : S \in SUBSET {c.key : c \in TableCalls}} :
          CursorNew(table, order)
    \/ \E op \in {"first", "last", "next", "prev", "current"} : CursorMove(op)
    \/ \E op \in {"seek", "seek_exact"}, key \in SeekKeys : CursorSeek(op, key)
    \/ \E start \in RangeStarts, end \in RangeEnds : CursorWalk(start, end)

SpecCursor == Init /\ [][NextCursor]_vars

(***************************************************************************)
(* Claims checked under Spec                                               *)
(***************************************************************************)
ErrorResults == {"OversizedKey", "OversizedValue", "Io"}

\* C2: when the WAL step of put, put_fast or delete returns an error, the
\* call returns that error and has changed neither the index nor the dirty
\* set.
C2_WalErrorLeavesIndexAndDirty ==
    \A t \in Threads :
        ~walOk[t] => /\ pc[t] = "idle"
                     /\ res[t] \in ErrorResults
                     /\ ~touched[t]

\* C2 witness: a durable call has failed on an I/O fault after another call
\* had put its key into the index, and the index still holds the old value.
C2_Witness ==
    \E t \in Threads :
        /\ ~walOk[t] /\ res[t] = "Io" /\ pc[t] = "idle"
        /\ call[t].key \in DOMAIN data
        /\ data[call[t].key] # call[t].value

\* ClawStoreEngine::get
get(idx, k) == IF k \in DOMAIN idx THEN <<"Some", idx[k]>> ELSE <<"None">>

\* C3: once all calls have returned (and none met an I/O fault), get(k)
\* observes for every key what replaying the WAL yields for it.
C3_IndexFollowsWalOrder ==
    ((\A t \in Threads : pc[t] = "idle") /\ nFaults = 0)
      => LET replayed == open_index(walDir, dataDir)
         IN  \A k \in Keys : get(data, k) = get(replayed, k)

\* The records a data directory scans to
DataRecords(dir) == UNION {Range(scan_all(dir[q])) : q \in DOMAIN dir}

\* C5: write ordering.  A value visible in the index has been appended to
\* the WAL as a Put record, every mutation applied to the index was appended
\* first, a key is dirty only after a mutation of it was applied to the
\* index, and every record in a data file reflects an appended mutation.
C5_WriteOrdering ==
    /\ \A k \in DOMAIN data : Entry(k, data[k], OpPut) \in Range(walLog)
    /\ applied \subseteq Range(walLog)
    /\ \A k \in dirty : \E e \in applied : e.key = k
    /\ \A item \in fl.to_flush :
          IF item.present THEN Entry(item.key, item.value, OpPut) \in Range(walLog)
          ELSE Entry(item.key, <<>>, OpDelete) \in Range(walLog)
    /\ \A r \in DataRecords(dataDir) :
          IF r.is_tombstone THEN Entry(r.key, <<>>, OpDelete) \in Range(walLog)
          ELSE Entry(r.key, r.value, OpPut) \in Range(walLog)

\* C5 witness: the flusher has written a live record and a tombstone.
C5_Witness ==
    /\ \E r \in DataRecords(dataDir) : r.is_tombstone
    /\ \E r \in DataRecords(dataDir) : ~r.is_tombstone /\ r.key \in DOMAIN data

(***************************************************************************)
(* Claims checked under SpecCrash                                          *)
(***************************************************************************)
\* C1: after a sequence of put and delete calls made one at a time, each
\* returning Ok, dropping the engine and opening the same root yields the
\* index the dropped engine had: same keys, same value per key.
C1_ReopenEqualsIndex ==
    (up /\ nOps = 0 /\ session.clean /\ session.durable) => data = session.index

\* C4: after delete(k) has returned Ok, get(k) is None and contains_key(k)
\* is false until a later put or put_fast of k is made, also when the engine
\* has been reopened in between.
C4_DeletedStaysAbsent ==
    up => \A k \in deleted : get(data, k) = <<"None">> /\ k \notin DOMAIN data

\* C8: every put_fast that returned Ok before a sync_wal that returned Ok is
\* recovered by an open that follows a crash at any later point.
C8_BatchCommitDurable ==
    (up /\ nOps = 0 /\ ~session.clean) => committed \subseteq Range(walLog)

(***************************************************************************)
(* Claims checked under SpecRecover                                        *)
(***************************************************************************)
\* The entries of the intact items of a file, in file order
RECURSIVE IntactEntries(_, _)
IntactEntries(items, i) ==
    IF i > Len(items) THEN <<>>
    ELSE (IF items[i].kind = "intact" THEN <<items[i].entry>> ELSE <<>>)
           \o IntactEntries(items, i + 1)

\* The entries of the intact items of the files, in sequence order
RECURSIVE LayoutEntries(_)
LayoutEntries(seqs) ==
    IF seqs = {} THEN <<>>
    ELSE LET lo == CHOOSE q \in seqs : \A r \in seqs : q <= r
         IN  IntactEntries(layout[lo], 1) \o LayoutEntries(seqs \ {lo})

\* The file ends in a record cut short, and all before it are complete
TornLast(items) ==
    /\ Len(items) > 0
    /\ items[Len(items)].kind = "torn"
    /\ \A i \in 1..(Len(items) - 1) : items[i].kind = "intact"

AllIntact(items) == \A i \in DOMAIN items : items[i].kind = "intact"

\* C6: when the last record of a WAL file is incomplete (fewer than 32
\* header bytes, or a header claiming more payload than remains), recovery
\* returns exactly the complete records before it in that file, and goes on
\* to the following files.
C6_TornTailTolerated ==
    (/\ recovered.done
     /\ \A q \in DOMAIN layout : AllIntact(layout[q]) \/ TornLast(layout[q])
     /\ \E q \in DOMAIN layout : TornLast(layout[q]))
      => recovered.entries = LayoutEntries(DOMAIN layout)

\* C6 witness: recovery has run over a file that ends in a torn record after
\* a complete one, followed by a file that holds a complete record.
C6_Witness ==
    /\ recovered.done
    /\ \A q \in DOMAIN layout : AllIntact(layout[q]) \/ TornLast(layout[q])
    /\ \E q \in DOMAIN layout :
          /\ TornLast(layout[q]) /\ Len(layout[q]) = 2
          /\ \E r \in DOMAIN layout : r > q /\ Len(layout[r]) > 0 /\ AllIntact(layout[r])
    /\ Len(recovered.entries) = 2

\* C7: when one record that is not the last of its file has valid magic but
\* fails its CRC check or carries an invalid kind byte, recovery returns
\* every intact record before and after it, in order.
C7_InteriorCorruptionSkipsOne ==
    (/\ recovered.done
     /\ Damaged
     /\ \A q \in DOMAIN layout : \A i \in DOMAIN layout[q] : layout[q][i].kind # "torn")
      => recovered.entries = LayoutEntries(DOMAIN layout)

(***************************************************************************)
(* Claims checked under SpecAuth                                           *)
(***************************************************************************)
\* C9: the index open builds depends on the WAL files alone: two roots with
\* the same WAL directory and different data directories recover the same
\* index.
C9_WalAuthoritative == up => data = indexB

\* C9 witness: both roots are open; the data directories differ, one holds
\* another value for a key of the index, the other a tombstone for it.
C9_Witness ==
    /\ up
    /\ dataDir # dataDirB
    /\ \E k \in DOMAIN data :
          /\ \E r \in DataRecords(dataDir) : r.key = k /\ ~r.is_tombstone /\ r.value # data[k]
          /\ \E r \in DataRecords(dataDirB) : r.key = k /\ r.is_tombstone

(***************************************************************************)
(* Claims checked under SpecCompact                                        *)
(***************************************************************************)
KeysOf(entries) == {entries[i].key : i \in DOMAIN entries}

\* The last record of key k in entries
LastOf(entries, k) ==
    entries[CHOOSE i \in DOMAIN entries :
               entries[i].key = k /\ \A j \in DOMAIN entries : entries[j].key = k => j <= i]

\* The bytes the records of entries take
RECURSIVE RecordsLen(_, _)
RecordsLen(entries, i) ==
    IF i > Len(entries) THEN 0
    ELSE DATA_HEADER_SIZE + Len(entries[i].key) + Len(entries[i].value)
           + RecordsLen(entries, i + 1)

\* C10: the file F' that compact_file leaves in place of F holds at most one
\* record per key and no tombstone; a key of F is in F' iff its last record
\* in F is no tombstone, and then with that record's value; F' holds no key
\* that F lacks, and F' is made of records that pass the CRC check.
C10_CompactionCorrect ==
    (compacted.runs > 0 /\ compacted.replaced) =>
      LET F == scan_all(compacted.before)
          G == scan_all(compacted.after)
      IN  /\ \A i, j \in DOMAIN G : G[i].key = G[j].key => i = j
          /\ \A i \in DOMAIN G : ~G[i].is_tombstone
          /\ \A k \in KeysOf(F) :
                /\ k \in KeysOf(G) <=> ~LastOf(F, k).is_tombstone
                /\ k \in KeysOf(G) => LastOf(G, k).value = LastOf(F, k).value
          /\ KeysOf(G) \subseteq KeysOf(F)
          /\ RecordsLen(G, 1) = Len(compacted.after)

\* C10 witness: compact_file has replaced a file that held two values for
\* one key and a value followed by a tombstone for another.
C10_Witness ==
    /\ compacted.runs > 0 /\ compacted.replaced /\ compacted.ok
    /\ LET F == scan_all(compacted.before) IN
       /\ \E i, j \in DOMAIN F :
             i < j /\ F[i].key = F[j].key /\ F[i].value # F[j].value /\ ~F[j].is_tombstone
       /\ \E i, j \in DOMAIN F :
             i < j /\ F[i].key = F[j].key /\ ~F[i].is_tombstone /\ F[j].is_tombstone
    /\ Len(compacted.after) > 0

\* The (key, value) pairs of the records of a scan
PairsOf(entries) == {<<entries[i].key, entries[i].value>> : i \in DOMAIN entries}

\* C11: compact_file on a file that is itself the output of compact_file
\* leaves a file with the same set of (key, value) records, and when it
\* succeeds it reports removed_entries = 0 and live_entries =
\* original_entries.
C11_CompactionIdempotent ==
    (compacted.again /\ ~compacted.crashed) =>
      /\ compacted.replaced =>
            /\ PairsOf(scan_all(compacted.after)) = PairsOf(scan_all(compacted.before))
            /\ Len(scan_all(compacted.after)) = Len(scan_all(compacted.before))
      /\ compacted.ok =>
            /\ compacted.replaced
            /\ compacted.removed_entries = 0
            /\ compacted.live_entries = compacted.original_entries

\* C11 witness: a second compact_file has succeeded on a compacted file that
\* holds two live records.
C11_Witness ==
    /\ compacted.again /\ compacted.ok /\ compacted.runs = 2
    /\ Cardinality(PairsOf(scan_all(compacted.before))) = 2
    /\ compacted.original_entries = 2

\* The names in the data directory: the data files and the temp file an
\* interrupted compact_file left behind
DataDirNames ==
    {data_file_name(q) : q \in DOMAIN dataDir}
      \cup (IF compacted.has_temp
            THEN {with_extension_claw_compact(data_file_name(compacted.file))} ELSE {})

\* The (key, value) pairs compaction keeps of a scan: for every key whose
\* last record is no tombstone, that record's value
LivePairsOf(entries) ==
    {<<k, LastOf(entries, k).value>> :
        k \in {kk \in KeysOf(entries) : ~LastOf(entries, kk).is_tombstone}}

\* C12: after a crash at any step of compact_file the file path holds either
\* the original bytes or the complete compacted live set, never a partial
\* or mixed file; a temp file left behind is listed neither by
\* DataFileWriter::new nor by compact_directory.
C12_CompactionCrashAtomic ==
    compacted.crashed =>
      /\ dataDir[compacted.file] = compacted.after
      /\ \/ compacted.after = compacted.before
         \/ LET G == scan_all(compacted.after) IN
            /\ PairsOf(G) = LivePairsOf(scan_all(compacted.before))
            /\ Len(G) = Cardinality(PairsOf(G))
            /\ \A i \in DOMAIN G : ~G[i].is_tombstone
            /\ RecordsLen(G, 1) = Len(compacted.after)
      /\ \A n \in DataDirNames :
            n.exts # <<"claw">> => ~writer_lists(n) /\ ~compactor_lists(n)
      /\ {n \in DataDirNames : writer_lists(n)} = {data_file_name(q) : q \in DOMAIN dataDir}
      /\ {n \in DataDirNames : compactor_lists(n)} = {data_file_name(q) : q \in DOMAIN dataDir}

\* C12 witness: compact_file was interrupted while writing the temp file for
\* a file with a stale record; part of a record is in the temp file.
C12_Witness ==
    /\ compacted.crashed /\ compacted.has_temp
    /\ Len(compacted.temp) = 4
    /\ Len(scan_all(compacted.before)) > Cardinality(LivePairsOf(scan_all(compacted.before)))
    /\ Cardinality(LivePairsOf(scan_all(compacted.before))) > 0

\* C12 second witness: the crash came after the rename.
C12_WitnessRenamed ==
    /\ compacted.crashed /\ compacted.replaced
    /\ compacted.after # compacted.before

\* C13: needs_compaction is false for a file with no valid record, and
\* otherwise true iff (total_records - live_unique_keys) / total_records >=
\* threshold, equality included; live_unique_keys counts the keys whose last
\* record is no tombstone.
C13_NeedsCompactionThreshold ==
    needs.done =>
      LET entries == scan_all(scanFile)
          total_records == Len(entries)
          live_unique_keys ==
              Cardinality({k \in KeysOf(entries) : ~LastOf(entries, k).is_tombstone})
      IN  needs.result <=>
            /\ total_records > 0
            /\ (total_records - live_unique_keys) * needs.threshold[2]
                 >= needs.threshold[1] * total_records

\* C14: a flush cycle with no write failure and no concurrent mutation
\* leaves the dirty set empty and appends exactly one data record per key
\* that was dirty: a live record with the key's index value if the key is
\* in the index, a tombstone if it is not; the index is not modified.
C14_FlushCycle ==
    (cycle.done /\ ~cycle.failed) =>
      LET n == Len(cycle.before)
          new == SubSeq(cycle.after, n + 1, Len(cycle.after))
      IN  /\ cycle.dirty_after = {}
          /\ SubSeq(cycle.after, 1, n) = cycle.before
          /\ Len(new) = Cardinality(cycle.keys)
          /\ \A k \in cycle.keys : \E i \in DOMAIN new :
                /\ new[i].key = k
                /\ IF k \in DOMAIN cycle.index
                   THEN ~new[i].is_tombstone /\ new[i].value = cycle.index[k]
                   ELSE new[i].is_tombstone
          /\ cycle.index_after = cycle.index

\* C14 witness: a cycle without failure has written a live record for a key
\* of the index and a tombstone for a deleted key.
C14_Witness ==
    /\ cycle.done /\ ~cycle.failed
    /\ \E k \in cycle.keys : k \in DOMAIN cycle.index
    /\ \E k \in cycle.keys : k \notin DOMAIN cycle.index
    /\ Len(cycle.after) = Len(cycle.before) + 2

WalBytes(dir) == [q \in DOMAIN dir |-> Len(dir[q])]

\* C16: put, put_fast and delete accept a key of exactly MaxKey bytes with a
\* value of 0 or exactly MaxValue bytes; a key of MaxKey + 1 bytes is
\* rejected with Oversized{component = key}, a value of MaxValue + 1 bytes
\* (under a key within the cap) with Oversized{component = value}; a
\* rejected call appends no byte to the WAL and changes neither the index
\* nor the dirty set. MaxKey and MaxValue are the caps of format.rs, which
\* are those of the default Config the engine was opened with.
C16_SizeBoundary ==
    last.n > 0 =>
        LET c == last.call
            klen == Len(c.key)
            vlen == Len(c.value)
        IN  /\ cfg.max_key_size = MAX_KEY_SIZE /\ cfg.max_value_size = MAX_VALUE_SIZE
            /\ (klen <= cfg.max_key_size /\ vlen <= cfg.max_value_size) => last.err = ""
            /\ klen = cfg.max_key_size + 1 => last.err = "OversizedKey"
            /\ (klen <= cfg.max_key_size /\ vlen = cfg.max_value_size + 1)
                    => last.err = "OversizedValue"
            /\ last.err # "" => /\ walDir = last.dir
                                /\ wal = last.w
                                /\ data = last.index
                                /\ dirty = last.dirty
            /\ last.err = "" => /\ WalBytes(walDir) # WalBytes(last.dir)
                                /\ c.key \in dirty

\* A call at the caps was accepted after another, and a later call with an
\* oversized value was rejected on an engine that holds entries
C16_Witness ==
    /\ last.n = 2
    /\ last.call.op = "put_fast" /\ last.call.key = KMax /\ last.call.value = VBig
    /\ last.err = "OversizedValue"
    /\ KMax \in DOMAIN data /\ data[KMax] = V2
    /\ dirty = {KMax}

\* A delete of an oversized key is rejected too
C16_WitnessDelete ==
    /\ last.n = 2 /\ last.call.op = "delete" /\ last.call.key = KBig
    /\ last.err = "OversizedKey" /\ K1 \in DOMAIN data /\ data[K1] = <<>>

(***************************************************************************)
(* Claims checked under SpecPrefix                                         *)
(***************************************************************************)
\* Lexicographic order of byte strings: a is a proper prefix of b, or the
\* first position where they differ holds the smaller byte in a
LexLess(a, b) ==
    \/ Len(a) < Len(b) /\ \A i \in 1..Len(a) : a[i] = b[i]
    \/ \E i \in 1..Len(a) :
          /\ i <= Len(b)
          /\ \A j \in 1..(i - 1) : a[j] = b[j]
          /\ a[i] < b[i]

\* C17: prefix_scan(p) returns exactly one pair (k without its first |p|
\* bytes, value of k) for every index key k that starts with p and no other
\* pair, in strictly ascending order of the stripped key; prefix_count(p)
\* equals the length of prefix_scan(p); neither changes the index.
C17_PrefixScan ==
    (last.n > 0 /\ last.call.op = "prefix_scan") =>
        LET p == last.call.key
            pairs == last.out.pairs
            hits == {k \in DOMAIN last.index :
                        Len(k) >= Len(p) /\ \A i \in 1..Len(p) : k[i] = p[i]}
        IN  /\ {pairs[i] : i \in DOMAIN pairs}
                  = {<<SubSeq(k, Len(p) + 1, Len(k)), last.index[k]>> : k \in hits}
            /\ Len(pairs) = Cardinality(hits)
            /\ \A i, j \in DOMAIN pairs : i < j => LexLess(pairs[i][1], pairs[j][1])
            /\ last.out.count = Len(pairs)
            /\ data = last.index

\* A scan of prefix <<1>> over four keys, three of which start with it; one
\* is the prefix itself and one extends another
C17_Witness ==
    /\ last.n > 0 /\ last.call.op = "prefix_scan" /\ last.call.key = K1
    /\ DOMAIN last.index = {K1, K110, K12, K21}
    /\ last.out.pairs = <<(<<(<<>>), V1>>), (<<(<<1, 0>>), V1>>), (<<(<<2>>), V1>>)>>
    /\ last.out.count = 3

(***************************************************************************)
(* Claims checked under SpecCrash: the file a WAL writer opens             *)
(***************************************************************************)
\* The maximum sequence among the files in S, 0 when there is none
MaxSeq(S) == IF S = {} THEN 0 ELSE CHOOSE q \in S : \A r \in S : r <= q

\* C18: on open the WAL writer takes the maximum sequence S among the
\* existing WAL files and appends to a newly created file of sequence S + 1,
\* the first file on an empty directory being wal-0000000000000001.claw; a
\* writer never appends to a WAL file that existed when it was opened.
C18_OpenStartsFreshFile ==
    up => /\ wal.file \notin session.existing
          /\ nOps = 0 => /\ wal.sequence = MaxSeq(session.existing) + 1
                         /\ wal.file = wal.sequence
                         /\ wal.size = 0

(***************************************************************************)
(* Claims checked under SpecConfig                                         *)
(***************************************************************************)
\* C19: the WAL rotation threshold is the wal_rotation_size of the Config
\* supplied at open: an engine rotates on a write exactly when the file's
\* size plus the record's length exceeds its own configured threshold
\* (stated for writes within the configured size caps).
C19_RotationAtConfiguredThreshold ==
    (/\ last.n > 0 /\ last.err = ""
     /\ Len(last.call.key) <= cfg.max_key_size
     /\ Len(last.call.value) <= cfg.max_value_size) =>
        ((wal.sequence # last.w.sequence)
            <=> (last.w.size + encoded_len(last.call.key, last.call.value)
                    > cfg.wal_rotation_size_bytes))

\* C20: the size caps enforced on a write are the max_key_size and
\* max_value_size of the Config supplied at open: a write whose key is
\* longer than the configured max_key_size, or whose value is longer than
\* the configured max_value_size, is rejected with Oversized, for every
\* shipped configuration.
C20_ConfiguredCapsEnforced ==
    (/\ last.n > 0
     /\ \/ Len(last.call.key) > cfg.max_key_size
        \/ Len(last.call.value) > cfg.max_value_size)
        => last.err \in {"OversizedKey", "OversizedValue"}

(***************************************************************************)
(* Claims checked under SpecKeys                                           *)
(***************************************************************************)
\* C21: every key held in the index and every key of a record in the WAL
\* has a length between 1 and MaxKey: put, put_fast and delete with an
\* empty key neither store nor log that key.
C21_KeyLengthAtLeastOne ==
    /\ \A k \in DOMAIN data : 1 <= Len(k) /\ Len(k) <= MAX_KEY_SIZE
    /\ \A i \in DOMAIN walLog : 1 <= Len(walLog[i].key) /\ Len(walLog[i].key) <= MAX_KEY_SIZE
    /\ \A e \in Range(recover_entries(walDir)) : 1 <= Len(e.key) /\ Len(e.key) <= MAX_KEY_SIZE

(***************************************************************************)
(* Claims checked under SpecData                                           *)
(***************************************************************************)
\* C22: for every write_entry(k, v) that returns Ok(o), after any sequence
\* of successful or failed writes on the same writer, read_entry on the
\* writer's current file at offset o returns Some entry with key k and
\* value v; for every write_tombstone(k) that returns Ok(o), read_entry at
\* o returns None.
C22_DataFileRoundTrip ==
    (last.n > 0 /\ last.err = "") =>
        LET r == read_entry(dataDir[dw.file], last.out) IN
        IF last.call.op = "write_entry"
        THEN r.ok /\ r.some /\ r.key = last.call.key /\ r.value = last.call.value
        ELSE r.ok /\ ~r.some

(***************************************************************************)
(* Claims checked under SpecCodec                                          *)
(***************************************************************************)
\* C23: for every key and value within the caps and kind in {Put, Delete},
\* serialize_entry succeeds and deserialize_entry of its bytes succeeds and
\* returns exactly (key, value, kind); the encoded record starts with the
\* CLAW magic, its length field equals the payload size and its CRC field
\* equals the CRC32C of the payload.
C23_LogRecordRoundTrip ==
    (last.n > 0 /\ last.call.op = "serialize_entry") =>
        LET bytes == last.out.bytes
            payload == SubSeq(bytes, HEADER_SIZE + 1, Len(bytes))
        IN  /\ last.err = ""
            /\ SubSeq(bytes, 1, 4) = <<67, 76, 65, 87>>
            /\ Len(payload) = 8 + Len(last.call.key) + Len(last.call.value)
            /\ bytes[5] + 256 * bytes[6] = Len(payload) /\ bytes[7] = 0 /\ bytes[8] = 0
            /\ SubSeq(bytes, 9, 12) = crc32c(payload)
            /\ last.n = 2 => /\ last.out.decoded.ok
                             /\ last.out.decoded.entry.key = last.call.key
                             /\ last.out.decoded.entry.value = last.call.value
                             /\ last.out.decoded.entry.operation = last.out.kind

\* A Delete whose key is the four magic bytes and whose value has the
\* maximal length has been encoded and decoded
C23_Witness ==
    /\ last.n = 2 /\ last.call.op = "serialize_entry"
    /\ last.call.key = MAGIC_ARRAY /\ last.call.value = V2 /\ last.out.kind = OpDelete
    /\ last.out.decoded.ok /\ last.out.decoded.entry.key = MAGIC_ARRAY
    /\ Len(last.out.bytes) = HEADER_SIZE + 16

(***************************************************************************)
(* Claims checked under SpecTx                                             *)
(***************************************************************************)
\* The index with the first n engine calls of a transaction applied in order
RECURSIVE TxApplied(_, _, _)
TxApplied(idx, writes, n) ==
    IF n = 0 THEN idx ELSE IndexUpdate(TxApplied(idx, writes, n - 1), writes[n])

\* C24: for a write transaction that makes several put and delete calls
\* and then commits, a crash at any point leaves, after reopen, either all
\* of the transaction's writes or none of them in the recovered index,
\* never a strict non-empty subset.
C24_TxCrashAllOrNothing ==
    (/\ up /\ ~session.clean /\ last.n > 0
     /\ session.opens = last.out.opens + 1
     /\ last.out.state \in {"open", "committed"}) =>
        \/ data = last.index
        \/ data = TxApplied(last.index, last.out.writes, Len(last.out.writes))

\* C25: write transactions buffer their changes until commit: while a
\* transaction is open, get of another transaction returns what it returned
\* before the transaction started; after abort the engine's index is as it
\* was before the transaction started.
C25_TxBuffersUntilCommit ==
    /\ TxOpen => \A table \in TxTables, key \in Keys :
                    tx_get(data, table, key) = tx_get(last.index, table, key)
    /\ (up /\ last.n > 0 /\ last.out.state = "aborted" /\ last.out.opens = session.opens)
          => data = last.index


(***************************************************************************)
(* Claims checked under SpecCursor: the adapter's cursor                   *)
(***************************************************************************)
LexLeq(a, b) == a = b \/ LexLess(a, b)

\* The encoded keys of the cursor's table in the index as it was when the
\* cursor was created
KeysAtCreation ==
    {SubSeq(k, 2, Len(k)) :
        k \in {j \in DOMAIN last.index :
                  Len(j) >= 1 /\ j[1] = KnownTableIds[last.out.table]}}

\* The pair of the table under key k when the cursor was created
PairAtCreation(k) ==
    [some |-> TRUE, key |-> k, value |-> last.index[<<KnownTableIds[last.out.table]>> \o k]]

\* The pair of the least key of S, None for an empty S
LeastPair(S) ==
    IF S = {} THEN NonePair
    ELSE PairAtCreation(CHOOSE k \in S : \A j \in S : LexLeq(k, j))

\* The pair of the greatest key of S, None for an empty S
GreatestPair(S) ==
    IF S = {} THEN NonePair
    ELSE PairAtCreation(CHOOSE k \in S : \A j \in S : LexLeq(j, k))

\* C26: a cursor iterates the table's entries as they were when the cursor
\* was created, every key exactly once in ascending encoded-key order;
\* seek(key) positions on the smallest entry with key >= the argument,
\* seek_exact on a missing key returns None, next at the last entry and prev
\* at the first entry return None, and walk_range yields only (and all) the
\* keys inside the range.
C26_CursorOrder ==
    (last.n = 1 /\ last.call.op \in {"first", "last", "next", "prev", "current", "seek",
                                     "seek_exact", "walk_range"}) =>
        LET name == last.call.op
            arg == last.call.key
            found == last.out.result
            items == last.out.items
            upto == last.out.end
            from == last.out.start
            inRange == {k \in KeysAtCreation :
                           /\ \/ from.kind = "Unbounded"
                              \/ from.kind = "Included" /\ LexLeq(from.key, k)
                              \/ from.kind = "Excluded" /\ LexLess(from.key, k)
                           /\ \/ upto.kind = "Unbounded"
                              \/ upto.kind = "Included" /\ LexLeq(k, upto.key)
                              \/ upto.kind = "Excluded" /\ LexLess(k, upto.key)}
        IN  /\ name = "first" => found = LeastPair(KeysAtCreation)
            /\ name = "last" => found = GreatestPair(KeysAtCreation)
            /\ name = "seek" => found = LeastPair({k \in KeysAtCreation : LexLeq(arg, k)})
            /\ name = "seek_exact" =>
                  found = IF arg \in KeysAtCreation THEN PairAtCreation(arg) ELSE NonePair
            /\ name = "next" =>
                  found = IF last.out.before = <<>> THEN LeastPair(KeysAtCreation)
                        ELSE LeastPair({k \in KeysAtCreation : LexLess(last.out.before[1], k)})
            /\ name = "prev" =>
                  found = IF last.out.before = <<>> THEN GreatestPair(KeysAtCreation)
                        ELSE GreatestPair({k \in KeysAtCreation :
                                              LexLess(k, last.out.before[1])})
            /\ name = "walk_range" =>
                  /\ {items[i].key : i \in DOMAIN items} = inRange
                  /\ \A i \in DOMAIN items : items[i] = PairAtCreation(items[i].key)
                  /\ \A i \in DOMAIN items, j \in DOMAIN items :
                        i < j => LexLess(items[i].key, items[j].key)

\* The same holds of every call but walk_range from an Excluded start bound
C26_CursorOrderOtherwise ==
    (last.n = 1 /\ last.out.start.kind # "Excluded") => C26_CursorOrder

\* The failing case: the cursor stands on an entry, no entry lies at or
\* above the Excluded start bound, and the walk yields the entry it stood on
C26_StaleStart ==
    /\ last.n = 1 /\ last.call.op = "walk_range"
    /\ last.out.start = [kind |-> "Excluded", key |-> <<4>>]
    /\ last.out.items # <<>>
    /\ LexLess(last.out.items[1].key, <<4>>)

\* A cursor on two entries, one deleted from the table afterwards, walks
\* over both
C26_Witness ==
    /\ last.n = 1 /\ last.call.op = "walk_range" /\ last.out.start.kind = "Unbounded"
    /\ last.out.end.kind = "Unbounded" /\ last.out.table = "CanonicalHeaders"
    /\ prefixed_key("CanonicalHeaders", <<1>>) \notin DOMAIN data
    /\ last.out.items = <<[some |-> TRUE, key |-> <<1>>, value |-> V1],
                          [some |-> TRUE, key |-> <<1, 0>>, value |-> V1]>>

\* seek on a missing key between two of three entries lands on the greater
C26_WitnessSeek ==
    /\ last.n = 1 /\ last.call.op = "seek" /\ last.call.key = <<2>>
    /\ Cardinality(KeysAtCreation) = 3
    /\ last.out.result = [some |-> TRUE, key |-> <<3>>, value |-> V1]

\* next at the last of three entries returns None
C26_WitnessEnd ==
    /\ last.n = 1 /\ last.call.op = "next" /\ last.out.before = <<(<<3>>)>>
    /\ Cardinality(KeysAtCreation) = 3
    /\ last.out.result = NonePair

\* a range from a stored key up to and without another
C26_WitnessRange ==
    /\ last.n = 1 /\ last.call.op = "walk_range"
    /\ last.out.start = [kind |-> "Included", key |-> <<1>>]
    /\ last.out.end = [kind |-> "Excluded", key |-> <<3>>]
    /\ Cardinality(KeysAtCreation) = 3
    /\ Len(last.out.items) = 2


\* The encoded keys put into table T and not deleted since, by the log of
\* the acknowledged calls
KeysPutNotDeleted(T) ==
    {c.tkey : c \in {p \in TableCalls :
        /\ p.table = T /\ p.op = "put_fast"
        /\ \E i \in DOMAIN walLog :
              /\ walLog[i] = Entry(p.key, p.value, OpPut)
              /\ \A j \in (i + 1)..Len(walLog) :
                    walLog[j] # Entry(TableDelete(T, p.tkey).key, <<>>, OpDelete)}}

\* What table T shows: get on every key tried, entries, and the pairs a
\* cursor created now iterates
TableView(idx, T) ==
    [get |-> [k \in SeekKeys |-> tx_get(idx, T, k)],
     entries |-> tx_entries(idx, T),
     cursor |-> ClawCursor_new(idx, CHOOSE o \in Orders(DOMAIN idx) : TRUE, T).data]

\* C27: two different known tables have different prefix bytes; a put or
\* delete on table A never changes the result of get, entries or cursor
\* iteration on another table B, even when the encoded key bytes are
\* identical; entries::<T>() equals the number of keys put and not deleted
\* in table T.
C27_TableIsolation ==
    /\ [](\A A \in DOMAIN KnownTableIds, B \in DOMAIN KnownTableIds :
            A # B => table_id_for_name(A) # table_id_for_name(B))
    /\ [](\A T \in TxTables : tx_entries(data, T) = Cardinality(KeysPutNotDeleted(T)))
    /\ [][\A c \in TableCalls :
            walLog' = Append(walLog, Entry(c.key, c.value, OpOf(c))) =>
                \A B \in TxTables \ {c.table} : TableView(data', B) = TableView(data, B)]_vars

\* Both tables were given the key <<1>>, and it was deleted from one
C27_Witness ==
    /\ Len(walLog) = 3
    /\ tx_get(data, "HeaderNumbers", <<1>>) = [some |-> TRUE, value |-> V2]
    /\ ~tx_get(data, "CanonicalHeaders", <<1>>).some
    /\ tx_entries(data, "HeaderNumbers") = 1
    /\ tx_entries(data, "CanonicalHeaders") = 0


(***************************************************************************)
(* Claims checked under SpecRotate: WAL rotation                           *)
(***************************************************************************)
\* C28: a WAL append rotates exactly when the tracked size plus the encoded
\* length of the record exceeds the threshold, before the record is written:
\* the old file is durably synced, the new file has the old file's sequence
\* plus one, the tracked size is reset to 0 (and then counts the record), and
\* the record that triggered the rotation is written whole into the new
\* file; no record is split across two files and the sequence numbers grow
\* strictly across rotations.
C28_WalRotation ==
    last.n > 0 =>
        LET c == last.call
            bytes == serialize_entry(c.key, IF c.op = "delete" THEN <<>> ELSE c.value,
                                     OpOf(c)).bytes
            old == last.w
            rotated == wal.file # old.file
            grown == {f \in DOMAIN walDir : f \notin DOMAIN last.dir \/ walDir[f] # last.dir[f]}
        IN  /\ last.err = "" => (rotated <=> old.size + Len(bytes) > WAL_ROTATION_SIZE)
            /\ rotated =>
                  /\ old.size + Len(bytes) > WAL_ROTATION_SIZE
                  /\ walDir[old.file] = last.dir[old.file]
                  /\ walSynced[old.file] = Len(walDir[old.file])
                  /\ wal.file = old.file + 1
                  /\ wal.file \notin DOMAIN last.dir
                  /\ wal.sequence > old.sequence
                  /\ wal.size = IF last.err = "" THEN Len(bytes) ELSE 0
                  /\ last.err = "" => walDir[wal.file] = bytes
            /\ ~rotated => wal.sequence >= old.sequence
            /\ grown \subseteq {wal.file}
            /\ last.err = "" =>
                  walDir[wal.file] = (IF rotated THEN <<>> ELSE last.dir[wal.file]) \o bytes

\* The same without a failed creation of the new file
C28_WalRotationOtherwise ==
    last.w.sequence = last.w.file => C28_WalRotation

\* A rotation that worked: the third record stands alone in wal-1
C28_Witness ==
    /\ last.n = 3 /\ last.err = "" /\ nFaults = 0
    /\ last.w.file = 0 /\ wal.file = 1
    /\ Len(walDir[0]) > WAL_ROTATION_SIZE - 41
    /\ Len(walDir[1]) = wal.size

\* The failing case: rotate could not create wal-1, the next call rotates
\* from wal-0 to wal-2
C28_SkippedSequence ==
    /\ last.n > 0 /\ last.err = ""
    /\ last.w.file = 0 /\ last.w.sequence = 1 /\ wal.file = 2
    /\ DOMAIN walDir = {0, 2}


(***************************************************************************)
(* Claims checked under SpecOrder: the order of recovery                   *)
(***************************************************************************)
\* C29: with no byte of the WAL lost or damaged, recover_entries returns
\* the records in exactly the order in which they were appended, across
\* rotations and across drops and reopenings of the writer, and the empty
\* sequence for an empty WAL directory.
C29_RecoveryOrder ==
    /\ recover_entries(walDir) = last.out
    /\ recover_entries(EmptyDir) = <<>>

\* Five records appended in three sessions lie in three files
C29_Witness ==
    /\ Len(last.out) = 5 /\ session.opens = 3
    /\ Cardinality(DOMAIN walDir) = 3
    /\ \E i \in 1..4 : last.out[i] # last.out[i + 1]
    /\ recover_entries(walDir) = last.out


(***************************************************************************)
(* Claims checked under SpecCrash: writing on behind a torn tail           *)
(***************************************************************************)
\* C30: after a crash that left a torn record at the end of the newest WAL
\* file, the engine is opened again and durable put and delete calls are
\* acknowledged; the next open recovers every one of them, together with the
\* complete records that preceded the torn tail. (The engine is open after
\* a power loss and has made durable calls only, so every byte of the WAL
\* is synced and the next open reads the files as they are; walLog holds
\* the records recovered by this open, then the acknowledged ones.)
C30_DurableBehindTornTail ==
    (up /\ ~session.clean /\ session.opens > 1 /\ session.durable) =>
        recover_entries(walDir) = walLog

\* The failing case: a record acknowledged behind a torn tail is not among
\* the records the next open reads
C30_LostBehindTornTail ==
    /\ up /\ ~session.clean /\ session.opens > 1 /\ session.durable /\ nOps = 1
    /\ \A q \in DOMAIN walDir : walSynced[q] = Len(walDir[q])
    /\ Len(recover_entries(walDir)) < Len(walLog)
    /\ walLog[Len(walLog)] \notin Range(recover_entries(walDir))


(***************************************************************************)
(* Claims checked under SpecFlush: a write of the cycle fails              *)
(***************************************************************************)
\* The bytes a step has added to file f of the data directory
AddedBytes(f) ==
    IF f \in DOMAIN dataDir THEN SubSeq(dataDir'[f], Len(dataDir[f]) + 1, Len(dataDir'[f]))
    ELSE dataDir'[f]

\* The step has added a whole record for key k, with the value the index
\* holds for k, or a tombstone if it holds none
RecordAdded(k) ==
    LET rec == IF k \in DOMAIN data THEN data_record(k, data[k], FALSE)
               ELSE data_record(k, <<>>, TRUE)
    IN  \E f \in DOMAIN dataDir' : \E o \in 0..Len(AddedBytes(f)) :
            Slice(AddedBytes(f), o, o + Len(rec)) = rec

\* C31: when write_entry or write_tombstone fails for a key during a flush
\* cycle, that key is put back into the dirty set, the remaining keys of the
\* cycle are still written, the cycle is still recorded, and total_flushed
\* grows only by the number of successful writes; no dirty key is dropped
\* without having been written successfully.
C31_FlushFailure ==
    [][cycle' # cycle =>
          /\ stats'.total_cycles = stats.total_cycles + 1
          /\ dirty' \subseteq dirty
          /\ (cycle'.failed /\ dirty # {}) => Cardinality(dirty') = 1
          /\ ~cycle'.failed => dirty' = {}
          /\ \A k \in dirty \ dirty' : RecordAdded(k)
          /\ stats'.total_flushed = stats.total_flushed + Cardinality(dirty \ dirty')
          /\ \A f \in DOMAIN dataDir :
                f \in DOMAIN dataDir' /\ Prefix(dataDir'[f], Len(dataDir[f])) = dataDir[f]]_vars

\* The write of one of two dirty keys failed: the other was written and
\* counted, the failed one is dirty again
C31_Witness ==
    /\ cycle.done /\ cycle.failed
    /\ Cardinality(cycle.keys) = 2
    /\ Cardinality(cycle.dirty_after) = 1 /\ cycle.dirty_after \subseteq cycle.keys
    /\ dirty = cycle.dirty_after
    /\ stats.total_cycles = 1 /\ stats.total_flushed = 1

\* The records written to the data files for key k, oldest first
RecordsFor(k) == SelectSeq(cycle.after, LAMBDA e : e.key = k)

\* The keys a call has mutated and returned Ok for
MutatedKeys == {walLog[i].key : i \in DOMAIN walLog}

\* No call is under way
Quiet == \A t \in Threads : pc[t] = "idle"

\* The last data record of every mutated key carries the index's view of it
Mirrored ==
    /\ dirty = {} /\ fl.pc = "sleep"
    /\ \A k \in MutatedKeys :
          /\ RecordsFor(k) # <<>>
          /\ \E e \in {RecordsFor(k)[Len(RecordsFor(k))]} :
                IF k \in DOMAIN data
                THEN ~e.is_tombstone /\ e.value = data[k]
                ELSE e.is_tombstone

\* C32: with a running trickle worker whose writes succeed, a key that is
\* dirty when its mutation is acknowledged gets one more data record later
\* on, whatever the interleaving of the calls with drain and snapshot; and
\* once no call is under way any more, from some point on the dirty set is
\* empty and the last data record of every mutated key is a live record
\* with the key's index value, or a tombstone if the index has no such key.
C32_EventualMirroring ==
    /\ \A k \in Keys : \A n \in 0..MaxOps :
          (k \in dirty /\ Len(RecordsFor(k)) = n) ~> (Len(RecordsFor(k)) > n)
    /\ <>[]Quiet => <>[]Mirrored

\* Both calls done on one key, the second one a delete that came after the
\* first record of the key: the key has a live record and then a tombstone
C32_Witness ==
    /\ Quiet /\ Mirrored /\ nOps = MaxOps
    /\ Len(RecordsFor(K1)) = 2
    /\ ~RecordsFor(K1)[1].is_tombstone /\ RecordsFor(K1)[2].is_tombstone
    /\ K1 \notin DOMAIN data

\* C33: take_dirty returns the whole set and leaves it empty in one step of
\* the tracker; whatever the interleaving of the calls, every key marked so
\* far is in a set some take_dirty returned or in the set that remains;
\* marking a key that is dirty leaves the set as it is; and dirty_count
\* returns the number of distinct keys marked since the last take.
C33_AtomicDrain ==
    /\ [](last.n > 0 => last.out.marked = last.out.taken \cup dirty)
    /\ [][last'.n # last.n =>
             /\ last'.call.op = "take_dirty" =>
                   last'.out.returned = dirty /\ dirty' = {}
             /\ (last'.call.op = "mark_dirty" /\ last'.call.key \in dirty) =>
                   dirty' = dirty
             /\ last'.call.op = "mark_dirty" => dirty' = dirty \cup {last'.call.key}
             /\ last'.call.op = "dirty_count" =>
                   /\ last'.out.count = Cardinality(last'.out.since)
                   /\ dirty' = dirty]_vars

\* A take that returned two keys, a key marked again after it, and a count
C33_Witness ==
    /\ last.n = MaxTrackerCalls /\ last.call.op = "dirty_count"
    /\ Cardinality(last.out.returned) = 2
    /\ last.out.count = 1 /\ dirty \subseteq last.out.returned

\* The data records the step has added for keys it took out of the dirty
\* set: the writes of the cycle that returned Ok
WrittenByCycle == {k \in dirty \ dirty' : RecordAdded(k)}

\* C34: total_cycles and total_flushed start at zero and never decrease;
\* every completed flush cycle, one that found the dirty set empty included,
\* adds one to total_cycles and adds to total_flushed the number of data
\* records (live and tombstone) it wrote successfully; a call adds nothing
\* to either; and every record counted is a record of the data files.
C34_FlushStatistics ==
    /\ [](~cycle.done => stats.total_cycles = 0 /\ stats.total_flushed = 0)
    /\ [](stats.total_flushed <= Len(scan_files(dataDir, DOMAIN dataDir)))
    /\ [][/\ stats'.total_cycles >= stats.total_cycles
          /\ stats'.total_flushed >= stats.total_flushed
          /\ nOps' # nOps => stats' = stats
          /\ nOps' = nOps =>
                /\ cycle'.done
                /\ stats'.total_cycles = stats.total_cycles + 1
                /\ stats'.total_flushed = stats.total_flushed + Cardinality(WrittenByCycle)
                /\ Cardinality(WrittenByCycle)
                      <= Len(cycle'.after) - Len(cycle'.before)]_vars

\* Two cycles done: one wrote a live record and a tombstone, the other found
\* the dirty set empty
C34_Witness ==
    /\ cycle.done /\ cycle.keys = {} /\ ~cycle.failed
    /\ stats.total_cycles = 2 /\ stats.total_flushed = 2
    /\ \E i, j \in 1..Len(cycle.after) :
          cycle.after[i].is_tombstone /\ ~cycle.after[j].is_tombstone

\* The trickle threads that have been spawned and have not ended
AliveWorkers ==
    IF last.n = 0 THEN {}
    ELSE {i \in 1..MaxStartCalls : last.out.worker[i] \in {"sleep", "flush", "final"}}

\* The trickle threads inside flush_dirty
FlushingWorkers ==
    IF last.n = 0 THEN {}
    ELSE {i \in 1..MaxStartCalls : last.out.worker[i] \in {"flush", "final"}}

\* C35: for any sequence of start_trickle and stop_trickle calls on one
\* engine, start_trickle twice in a row included, at most one trickle thread
\* is alive at any time, and so at most one is flushing.
C35_SingleWorker ==
    Cardinality(AliveWorkers) <= 1 /\ Cardinality(FlushingWorkers) <= 1

\* C35, apart from a start_trickle that finds a handle in the slot: unless
\* the caller is between the spawn of a second thread and the end of the
\* join of the first, at most one trickle thread is alive.
C35_SingleWorkerOtherwise ==
    (last.n > 0 /\ (last.out.caller \in {"store", "join"} => last.out.slot = 0))
        => Cardinality(AliveWorkers) <= 1

\* Two trickle threads inside flush_dirty at once, after the second
\* start_trickle
C35_TwoWorkers ==
    /\ last.n = 2 /\ last.call.op = "start_trickle"
    /\ FlushingWorkers = {1, 2}

\* The three locks of the claim, the index lock in either mode
DataLocks == {WalMutex, IndexRead, IndexWrite, DirtyMutex}

\* C36: in every interleaving of put, put_fast, delete, sync_wal, get,
\* prefix_scan, the flush cycles of the trickle thread and stop_trickle, no
\* thread holds two of the WAL mutex, the index lock and the dirty-set mutex
\* at once (so none is acquired while another is held), the trickle thread
\* holds none of them when it does its data-file I/O, and no deadlock is
\* reachable: no set of threads wait for each other, even if a reader of
\* the index is made to wait for a waiting writer, and a thread that waits
\* has another thread that can step or a trickle thread between cycles.
C36_LockDiscipline ==
    last.n > 0 =>
        /\ \A t \in LockThreads : Cardinality(last.out.hold[t] \cap DataLocks) <= 1
        /\ \A t \in LockThreads :
              (last.out.steps[t] # <<>> /\ last.out.steps[t][1][1] = "lock")
                  => last.out.hold[t] \cap DataLocks = {}
        /\ (last.out.steps[TrickleThread] # <<>>
               /\ last.out.steps[TrickleThread][1][1] = "io")
              => last.out.hold[TrickleThread] = {}
        /\ \A S \in SUBSET LockThreads : ~Deadlocked(last.out, S)
        /\ \/ \E t \in LockThreads : CanStep(last.out, t, TRUE)
           \/ last.out.steps[TrickleThread] = <<>>

\* stop_trickle waits in its join with the slot locked, while the trickle
\* thread holds the dirty-set mutex in its final flush and a put waits for
\* that mutex
C36_Witness ==
    /\ last.n > 0 /\ last.out.final /\ ~last.out.ended
    /\ DirtyMutex \in last.out.hold[TrickleThread]
    /\ \E t, u \in Threads :
          /\ last.out.steps[t] # <<>> /\ last.out.steps[t][1][1] = "join"
          /\ TrickleMutex \in last.out.hold[t]
          /\ last.out.steps[u] # <<>> /\ last.out.steps[u][1] = <<"lock", DirtyMutex>>

\* The intact records of a layout, in file order, as scan_all returns one
IntactRecords(records) ==
    LET keep == SelectSeq(records, LAMBDA e : e.how = "none")
    IN  [i \in DOMAIN keep |->
            [key |-> keep[i].key, value |-> keep[i].value, offset |-> keep[i].offset,
             is_tombstone |-> keep[i].is_tombstone]]

\* C37: scan_all returns, in file order, every record whose header and CRC
\* are valid, live or tombstone, and nothing else: a record with a CRC
\* mismatch, a bad magic or a length over the cap is passed over and the
\* records behind it are still returned, a record cut short ends the scan
\* or is passed over, and a file of whole records is returned as written.
C37_ScanAll ==
    (last.n > 0 /\ last.out.done) => last.out.result = IntactRecords(last.out.layout)

\* C37, apart from a write cut short behind its header with a record
\* written behind it: the same, when no record but the last is cut after
\* the header.
C37_ScanAllOtherwise ==
    (/\ last.n > 0 /\ last.out.done
     /\ \A i \in 1..(Len(last.out.layout) - 1) : last.out.layout[i].how # "torn_header")
        => last.out.result = IntactRecords(last.out.layout)

\* A damaged record between two intact ones, a tombstone among them, and
\* both intact ones returned
C37_Witness ==
    /\ last.n = 3 /\ last.out.done
    /\ last.out.layout[1].how = "none" /\ last.out.layout[3].how = "none"
    /\ last.out.layout[2].how = "payload"
    /\ last.out.layout[3].is_tombstone
    /\ Len(last.out.result) = 2 /\ last.out.result[2].is_tombstone

\* A write cut short behind its header, an intact record behind it, and
\* nothing returned
C37_RecordLost ==
    /\ last.n = 2 /\ last.out.done
    /\ last.out.layout[1].how = "torn_header" /\ last.out.layout[2].how = "none"
    /\ last.out.result = <<>>

\* C38: a record the data-file writer appended with Ok to a file while
\* compact_file was running on that file is returned by scan_all of the path
\* once compaction has completed, unless a later record of the same key was
\* appended behind it.
C38_CompactionKeepsAppends ==
    (last.n > 0 /\ last.out.at = "done") =>
        \A i \in DOMAIN last.out.during :
            \/ \E j \in DOMAIN last.out.during : j > i /\ last.out.during[j].key = last.out.during[i].key
            \/ \E e \in Range(scan_all(dataDir[last.out.file])) :
                  /\ e.key = last.out.during[i].key
                  /\ e.is_tombstone = last.out.during[i].is_tombstone
                  /\ ~e.is_tombstone => e.value = last.out.during[i].value

\* A value written for K2 while compact_file was between its scan and its
\* rename, and the path without a record of K2 afterwards
C38_AppendLost ==
    /\ last.n > 0 /\ last.out.at = "done"
    /\ last.out.during = <<[key |-> K2, value |-> V2, is_tombstone |-> FALSE]>>
    /\ last.out.all_entries # <<>>
    /\ K2 \notin KeysOf(scan_all(dataDir[last.out.file]))

\* The entries of every record that was appended to the WAL, damaged later
\* or not
AppendedEntries ==
    UNION {{layout[q][i].entry : i \in DOMAIN layout[q]} : q \in DOMAIN layout}

\* C39: every record recover_entries returns has the key, value and kind of
\* a record that was appended to the WAL, also when a record of the file is
\* damaged and keys or values hold the magic bytes: no record is parsed
\* from inside another record's payload.
C39_NoPhantom ==
    recovered.done => \A i \in DOMAIN recovered.entries : recovered.entries[i] \in AppendedEntries

\* C39, apart from a damaged record whose value holds a whole record: when
\* the record damaged is not the one with the embedded bytes, every record
\* returned was appended.
C39_NoPhantomOtherwise ==
    (/\ recovered.done
     /\ \A q \in DOMAIN layout : \A i \in DOMAIN layout[q] :
           layout[q][i].kind = "corrupt" => layout[q][i].entry.value # EmbeddedRecord)
        => \A i \in DOMAIN recovered.entries : recovered.entries[i] \in AppendedEntries

\* The record with the embedded bytes is damaged, and recover_entries
\* returns a put of K2 that nobody appended
C39_Phantom ==
    /\ recovered.done /\ Damaged
    /\ Entry(K2, V1, OpPut) \in Range(recovered.entries)
    /\ Entry(K2, V1, OpPut) \notin AppendedEntries

\* The record whose key is the magic bytes is damaged behind another record
\* and in front of a third, and only appended records are returned
C39_Witness ==
    /\ recovered.done
    /\ \E q \in DOMAIN layout : \E i \in DOMAIN layout[q] :
          layout[q][i].kind = "corrupt" /\ layout[q][i].entry.key = MAGIC_ARRAY
    /\ recovered.entries # <<>>

\* C40: after every operation of the WalWriter (new, append_durable,
\* append_fast, rotate), failed or not, its tracked size is the length of
\* the file it appends to, and likewise for the DataFileWriter.
C40_SizeTracking ==
    /\ wal.size = Len(walDir[wal.file])
    /\ dw.size = Len(dataDir[dw.file])

\* C40, for the DataFileWriter alone: its tracked size is the length of its
\* file, so the offset a write returns is where its record starts.
C40_DataSizeTracking ==
    /\ dw.size = Len(dataDir[dw.file])
    /\ (last.n > 0 /\ last.err = "") =>
          Slice(dataDir[dw.file], last.out, last.out + 4) = MAGIC_ARRAY

\* C40, apart from operations behind a failed write or sync: while no
\* operation has failed, the WalWriter's tracked size is the length of its
\* file, rotations included.
C40_SizeTrackingOtherwise ==
    nFaults = 0 => wal.size = Len(walDir[wal.file])

\* An append has failed at its durable_sync: the record is in the file and
\* the tracked size is still the length before it
C40_SizeBehind ==
    /\ last.n > 0 /\ last.err = "Io"
    /\ wal.size = last.w.size /\ wal.file = last.w.file
    /\ Len(walDir[wal.file]) = wal.size + encoded_len(last.call.key, last.call.value)

\* Three appends without a fault, the last one behind a rotation
C40_Witness ==
    /\ last.n = 3 /\ nFaults = 0 /\ wal.file > last.w.file
    /\ wal.size = encoded_len(last.call.key, last.call.value)

====
